---- MODULE Spec2Model ----
(***************************************************************************)
(* VibeGuard: the policy engine (src/policy/engine.py) and the detection of *)
(* AI-generated code (src/detection: stylometry.py, patterns.py,           *)
(* detector.py).                                                           *)
(*                                                                         *)
(* Strings the code parses (threshold expressions, glob patterns, paths)   *)
(* are sequences of one-character strings, so that the regular expressions *)
(* and fnmatch are modelled by what they do to the characters.  Numbers    *)
(* compared against thresholds are exact rationals [n, d]; the code uses   *)
(* IEEE doubles, whose rounding (0.57 * 100 = 56.99999999999999) is not    *)
(* modelled.  A YAML mapping is a record whose DOMAIN is the set of keys   *)
(* present; a YAML scalar that the code expects to be a string is a tagged *)
(* value (none / str / num), because yaml.safe_load may return a number.   *)
(*                                                                         *)
(* Source texts are sequences of characters as well; the regular           *)
(* expressions of the detection are pattern trees matched the way Python's *)
(* backtracking `re` matches them.  Feature values and scores are exact    *)
(* rationals; statistics.stdev is the square root cut off after two        *)
(* decimals.  The grave accent is written as the string "grave".           *)
(***************************************************************************)
EXTENDS Integers, Sequences, FiniteSets, Bags, TLC

VARIABLES config, engine, analysis, result, trigger, tmAnalysis, tmResult,
          policy, epAnalysis, epResult, cmp, detector, detection, score,
          calls

vars == <<config, engine, analysis, result, trigger, tmAnalysis, tmResult,
          policy, epAnalysis, epResult, cmp, detector, detection, score,
          calls>>

\* The variables of the policy engine and those of the detector
polVars == <<config, engine, analysis, result, trigger, tmAnalysis, tmResult,
             policy, epAnalysis, epResult, cmp>>
detVars == <<detector, detection, score>>

(***************************************************************************)
(* Bounds of the model.                                                    *)
(***************************************************************************)
MaxPolicies == 2
MaxFiles == 2
MaxChecks == 2
\* The number of invocations that run at the same time
MaxCalls == 2

(***************************************************************************)
(* YAML / Python values.                                                   *)
(***************************************************************************)
NoneV == [kind |-> "none", s |-> <<>>, n |-> 0]
Str(cs) == [kind |-> "str", s |-> cs, n |-> 0]
Num(k) == [kind |-> "num", s |-> <<>>, n |-> k]

\* Python truthiness of a scalar: None, "" and 0 are falsy.
Truthy(v) ==
    \/ v.kind = "str" /\ v.s # <<>>
    \/ v.kind = "num" /\ v.n # 0

\* dict.get(key, default)
Get(d, key, default) == IF key \in DOMAIN d THEN d[key] ELSE default

Rat(a, b) == [n |-> a, d |-> b]

\* a1/b1 < a2/b2 and a1/b1 = a2/b2 for positive denominators
RatLt(x, y) == x.n * y.d < y.n * x.d
RatEq(x, y) == x.n * y.d = y.n * x.d

RECURSIVE Gcd(_, _)
Gcd(a, b) == IF b = 0 THEN a ELSE Gcd(b, a % b)

\* Fractions are kept in lowest terms, the denominator positive.
\* (A zero denominator, the result of dividing by zero, is kept as it is.)
Norm(a, b) ==
    LET g == Gcd(IF a < 0 THEN 0 - a ELSE a, b)
    IN  IF b = 0 THEN Rat(a, 0)
        ELSE IF g = 0 THEN Rat(0, 1)
        ELSE Rat(a \div g, b \div g)

RatAdd(x, y) == Norm(x.n * y.d + y.n * x.d, x.d * y.d)
RatSub(x, y) == Norm(x.n * y.d - y.n * x.d, x.d * y.d)
RatMul(x, y) == Norm(x.n * y.n, x.d * y.d)
RatAbs(x) == IF x.n < 0 THEN Rat(0 - x.n, x.d) ELSE x
RatMax(x, y) == IF RatLt(x, y) THEN y ELSE x
RatMin(x, y) == IF RatLt(y, x) THEN y ELSE x

(***************************************************************************)
(* Characters.                                                             *)
(***************************************************************************)
Digits == {"0", "1", "2", "3", "4", "5", "6", "7", "8", "9"}
OpChars == {"<", ">", "="}
Spaces == {" "}

DigitVal(c) ==
    CASE c = "0" -> 0 [] c = "1" -> 1 [] c = "2" -> 2 [] c = "3" -> 3
      [] c = "4" -> 4 [] c = "5" -> 5 [] c = "6" -> 6 [] c = "7" -> 7
      [] c = "8" -> 8 [] c = "9" -> 9

DigitChar(k) ==
    CASE k = 0 -> "0" [] k = 1 -> "1" [] k = 2 -> "2" [] k = 3 -> "3"
      [] k = 4 -> "4" [] k = 5 -> "5" [] k = 6 -> "6" [] k = 7 -> "7"
      [] k = 8 -> "8" [] k = 9 -> "9"

\* Length of the longest prefix of s, starting at position from, whose
\* characters are all in set cs (a greedy  [cs]*  of the regex engine).
RECURSIVE Run(_, _, _)
Run(s, from, cs) ==
    IF from <= Len(s) /\ s[from] \in cs
    THEN 1 + Run(s, from + 1, cs)
    ELSE 0

\* str.strip()
RECURSIVE LStrip(_)
LStrip(s) == IF s # <<>> /\ Head(s) \in Spaces THEN LStrip(Tail(s)) ELSE s

RECURSIVE RStrip(_)
RStrip(s) ==
    IF s # <<>> /\ s[Len(s)] \in Spaces
    THEN RStrip(SubSeq(s, 1, Len(s) - 1))
    ELSE s

Strip(s) == RStrip(LStrip(s))

\* int("123") / the integer read off a run of digits
RECURSIVE DigitsToInt(_)
DigitsToInt(s) ==
    IF s = <<>> THEN 0
    ELSE 10 * DigitsToInt(SubSeq(s, 1, Len(s) - 1)) + DigitVal(s[Len(s)])

\* str(n) for a natural number
RECURSIVE IntToDigits(_)
IntToDigits(k) ==
    IF k < 10 THEN <<DigitChar(k)>>
    ELSE Append(IntToDigits(k \div 10), DigitChar(k % 10))

RECURSIVE Pow10(_)
Pow10(k) == IF k = 0 THEN 1 ELSE 10 * Pow10(k - 1)

\* s[from..] starts with the characters of w
StartsWith(s, from, w) ==
    /\ from + Len(w) - 1 <= Len(s)
    /\ \A j \in 1..Len(w) : s[from + j - 1] = w[j]

(***************************************************************************)
(* Threshold grammar.                                                      *)
(***************************************************************************)
Ret(b) == [raised |-> FALSE, val |-> b]
Raise == [raised |-> TRUE, val |-> FALSE]

\* re.match(r'([<>=]+)\s*(\d+(?:\.\d+)?)\s*%?', s): the match is anchored at
\* the start only, so whatever follows the number is not looked at.
ThresholdMatch(s) ==
    LET opLen == Run(s, 1, OpChars)
        sp == Run(s, opLen + 1, Spaces)
        intAt == opLen + sp + 1
        intLen == Run(s, intAt, Digits)
        dotAt == intAt + intLen
        fracLen == IF dotAt <= Len(s) /\ s[dotAt] = "."
                   THEN Run(s, dotAt + 1, Digits)
                   ELSE 0
        intPart == DigitsToInt(SubSeq(s, intAt, intAt + intLen - 1))
        fracPart == DigitsToInt(SubSeq(s, dotAt + 1, dotAt + fracLen))
    IN  IF opLen = 0 \/ intLen = 0
        THEN [ok |-> FALSE, operator |-> <<>>, threshold |-> Rat(0, 1)]
        ELSE [ok |-> TRUE,
              operator |-> SubSeq(s, 1, opLen),
              threshold |-> Rat(intPart * Pow10(fracLen) + fracPart,
                                Pow10(fracLen))]

\* The mutant reads '>' as '>='.
CompareOpNotStrict(operator, value, threshold) ==
    IF operator = <<">">> \/ operator = <<">", "=">>
    THEN ~RatLt(value, threshold)
    ELSE IF operator = <<"<">> THEN RatLt(value, threshold)
    ELSE IF operator = <<"<", "=">> THEN ~RatLt(threshold, value)
    ELSE IF operator = <<"=", "=">> \/ operator = <<"=">> THEN RatEq(value, threshold)
    ELSE FALSE

\* The comparison of lines 230-241, by operator
CompareOp(operator, value, threshold) ==
    IF operator = <<">">> THEN RatLt(threshold, value)
    ELSE IF operator = <<">", "=">> THEN ~RatLt(value, threshold)
    ELSE IF operator = <<"<">> THEN RatLt(value, threshold)
    ELSE IF operator = <<"<", "=">> THEN ~RatLt(threshold, value)
    ELSE IF operator = <<"=", "=">> \/ operator = <<"=">> THEN RatEq(value, threshold)
    ELSE FALSE

\* _compare_threshold(condition, value); condition.strip() raises
\* AttributeError when the YAML scalar is not a string.
CompareThreshold(condition, value) ==
    IF condition.kind # "str" THEN Raise
    ELSE LET m == ThresholdMatch(Strip(condition.s))
         IN  IF ~m.ok THEN Ret(FALSE)
             ELSE Ret(CompareOp(m.operator, value, m.threshold))

UnitWords == { <<"s","e","c","o","n","d">>, <<"m","i","n","u","t","e">>,
               <<"h","o","u","r">> }

\* The mutant takes every unit for seconds.
MultiplierSeconds(unit) == 1

\* multipliers = {'second': 1, 'minute': 60, 'hour': 3600}
Multiplier(unit) ==
    IF unit = <<"s","e","c","o","n","d">> THEN 1
    ELSE IF unit = <<"m","i","n","u","t","e">> THEN 60
    ELSE 3600

\* re.match(r'([<>=]+)\s*(\d+)\s*(second|minute|hour)s?', s)
TimeMatch(s) ==
    LET opLen == Run(s, 1, OpChars)
        sp == Run(s, opLen + 1, Spaces)
        intAt == opLen + sp + 1
        intLen == Run(s, intAt, Digits)
        unitAt == intAt + intLen + Run(s, intAt + intLen, Spaces)
        units == {w \in UnitWords : StartsWith(s, unitAt, w)}
    IN  IF opLen = 0 \/ intLen = 0 \/ units = {}
        THEN [ok |-> FALSE, operator |-> <<>>, amount |-> 0, unit |-> <<>>]
        ELSE [ok |-> TRUE,
              operator |-> SubSeq(s, 1, opLen),
              amount |-> DigitsToInt(SubSeq(s, intAt, intAt + intLen - 1)),
              unit |-> CHOOSE w \in units : TRUE]

\* _compare_time_threshold(condition, seconds): the threshold in seconds is
\* formatted back into "<operator> <n>" and handed to _compare_threshold.
CompareTimeThreshold(condition, seconds) ==
    IF condition.kind # "str" THEN Raise
    ELSE LET m == TimeMatch(Strip(condition.s))
         IN  IF ~m.ok THEN Ret(FALSE)
             ELSE CompareThreshold(
                     Str(m.operator \o <<" ">> \o
                         IntToDigits(m.amount * Multiplier(m.unit))),
                     Rat(seconds, 1))

(***************************************************************************)
(* Rule evaluator.                                                         *)
(***************************************************************************)
\* Optional[int]
NoInt == [some |-> FALSE, v |-> 0]
SomeInt(k) == [some |-> TRUE, v |-> k]

\* analysis.max_ai_confidence * 100
Times100(x) == Rat(x.n * 100, x.d)

\* The mutant looks at the first condition only.
FirstFailureFirstOnly(outcomes) == outcomes[1]

\* The outcome of the first condition, in the order the code tries them,
\* that fails or raises; True if there is none.
FirstFailure(outcomes) ==
    LET failing == {k \in 1..Len(outcomes) :
                       outcomes[k].raised \/ ~outcomes[k].val}
    IN  IF failing = {} THEN Ret(TRUE)
        ELSE outcomes[CHOOSE k \in failing : \A j \in failing : k <= j]

\* _trigger_matches(trigger, analysis): the conditions are tried in order and
\* the first one that fails (or raises) ends the call.  (Each outcome is
\* bound once, as the element of a singleton set.)
TriggerMatches(t, a) ==
    CHOOSE out \in
        { FirstFailure(<<c1, c2, c3, c4>>) :
            c1 \in {IF Truthy(t.ai_confidence)
                    THEN CompareThreshold(t.ai_confidence,
                                          Times100(a.max_ai_confidence))
                    ELSE Ret(TRUE)},
            c2 \in {IF Truthy(t.ai_percentage)
                    THEN CompareThreshold(t.ai_percentage, a.ai_percentage)
                    ELSE Ret(TRUE)},
            c3 \in {IF Truthy(t.lines_changed)
                    THEN CompareThreshold(t.lines_changed,
                                          Rat(a.total_lines_changed, 1))
                    ELSE Ret(TRUE)},
            c4 \in {IF Truthy(t.review_time) /\ a.review_time_seconds.some
                    THEN CompareTimeThreshold(t.review_time,
                                              a.review_time_seconds.v)
                    ELSE Ret(TRUE)} } : TRUE

\* fnmatch.fnmatch(path, pattern) on a POSIX system: '*' matches any run of
\* characters ('/' included), '?' any one character, anything else itself.
RECURSIVE fnmatch(_, _)
fnmatch(path, pattern) ==
    IF pattern = <<>> THEN path = <<>>
    ELSE IF Head(pattern) = "*"
    THEN \/ fnmatch(path, Tail(pattern))
         \/ path # <<>> /\ fnmatch(Tail(path), pattern)
    ELSE /\ path # <<>>
         /\ Head(pattern) = "?" \/ Head(pattern) = Head(path)
         /\ fnmatch(Tail(path), Tail(pattern))

\* The mutant appends the path once per matching pattern (no break).
RECURSIVE MatchPathsNoBreak(_, _)
MatchPathsNoBreak(patterns, files) ==
    IF files = <<>> THEN <<>>
    ELSE LET path == Head(files).path
         IN  [j \in 1..Cardinality({k \in 1..Len(patterns) :
                                      fnmatch(path, patterns[k])}) |-> path]
             \o MatchPathsNoBreak(patterns, Tail(files))

\* The mutant selects a file only if its own probability is above 0.7.
RECURSIVE MatchPathsOwnConfidence(_, _)
MatchPathsOwnConfidence(patterns, files) ==
    IF files = <<>> THEN <<>>
    ELSE LET path == Head(files).path
         IN  (IF /\ \E k \in 1..Len(patterns) : fnmatch(path, patterns[k])
                 /\ RatLt(Rat(7, 10), Head(files).ai_confidence)
              THEN <<path>> ELSE <<>>)
             \o MatchPathsOwnConfidence(patterns, Tail(files))

\* _match_paths(patterns, files)
RECURSIVE MatchPaths(_, _)
MatchPaths(patterns, files) ==
    IF files = <<>> THEN <<>>
    ELSE LET path == Head(files).path
         IN  (IF \E k \in 1..Len(patterns) : fnmatch(path, patterns[k])
              THEN <<path>> ELSE <<>>)
             \o MatchPaths(patterns, Tail(files))

\* _check_secrets, _check_sql_injection, _check_xss: True when no issue of
\* the type is present.
CheckSecrets(a) ==
    ~\E k \in 1..Len(a.security_issues) :
        a.security_issues[k].type = "hardcoded_secret"

CheckSqlInjection(a) ==
    ~\E k \in 1..Len(a.security_issues) :
        a.security_issues[k].type = "sql_injection"

CheckXss(a) ==
    ~\E k \in 1..Len(a.security_issues) :
        a.security_issues[k].type = "xss"

\* The mutant returns the verdict of the first recognised check only.
RECURSIVE RunChecksFirstOnly(_, _)
RunChecksFirstOnly(checks, a) ==
    IF checks = <<>> THEN TRUE
    ELSE LET c == Head(checks)
         IN  IF c = "hardcoded_secrets" THEN CheckSecrets(a)
             ELSE IF c = "sql_injection" THEN CheckSqlInjection(a)
             ELSE IF c = "xss_patterns" THEN CheckXss(a)
             ELSE RunChecksFirstOnly(Tail(checks), a)

\* The mutant fails a check whose name is not in check_types.
RECURSIVE RunChecksUnknownFails(_, _)
RunChecksUnknownFails(checks, a) ==
    IF checks = <<>> THEN TRUE
    ELSE LET c == Head(checks)
             passed == IF c = "hardcoded_secrets" THEN CheckSecrets(a)
                       ELSE IF c = "sql_injection" THEN CheckSqlInjection(a)
                       ELSE IF c = "xss_patterns" THEN CheckXss(a)
                       ELSE FALSE
         IN  passed /\ RunChecksUnknownFails(Tail(checks), a)

\* _run_checks(checks, analysis): True if all recognised checks pass; a name
\* that is not in check_types is skipped.
RECURSIVE RunChecks(_, _)
RunChecks(checks, a) ==
    IF checks = <<>> THEN TRUE
    ELSE LET c == Head(checks)
             passed == IF c = "hardcoded_secrets" THEN CheckSecrets(a)
                       ELSE IF c = "sql_injection" THEN CheckSqlInjection(a)
                       ELSE IF c = "xss_patterns" THEN CheckXss(a)
                       ELSE TRUE
         IN  IF ~passed THEN FALSE ELSE RunChecks(Tail(checks), a)

AllPaths(files) == [k \in 1..Len(files) |-> files[k].path]

\* _evaluate_policy(policy, analysis), given the outcome tm of
\* _trigger_matches and the list `matched` of lines 177-183.
PolicyResult(p, a, tm, matched) ==
    LET untriggered == [raised |-> FALSE, triggered |-> FALSE,
                        message |-> p.message, matched_files |-> <<>>]
    IN  IF tm.raised
        THEN [raised |-> TRUE, triggered |-> FALSE,
              message |-> p.message, matched_files |-> <<>>]
        ELSE IF ~tm.val THEN untriggered
        ELSE IF p.trigger.paths # <<>> /\ matched = <<>> THEN untriggered
        ELSE IF p.trigger.checks # <<>> /\ RunChecks(p.trigger.checks, a)
        THEN [untriggered EXCEPT !.matched_files = matched]
        ELSE [raised |-> FALSE, triggered |-> TRUE,
              message |-> p.message, matched_files |-> matched]

\* _evaluate_policy(policy, analysis)
EvaluatePolicy(p, a) ==
    CHOOSE out \in
        { PolicyResult(p, a, tm, matched) :
            tm \in {TriggerMatches(p.trigger, a)},
            matched \in {IF p.trigger.paths # <<>>
                         THEN MatchPaths(p.trigger.paths, a.files)
                         ELSE AllPaths(a.files)} } : TRUE

(***************************************************************************)
(* Policy resolver.                                                        *)
(***************************************************************************)
\* policy.reviewers as loaded from YAML: absent (None), a mapping with the
\* given keys, or a non-empty value of another type (a list or a string).
NoReviewers == [kind |-> "none", keys |-> {}, teams |-> <<>>]
ReviewersMap(ks, ts) == [kind |-> "map", keys |-> ks, teams |-> ts]
ReviewersList(ts) == [kind |-> "list", keys |-> {}, teams |-> ts]

\* `if policy.reviewers:`  (None and the empty mapping are falsy)
ReviewersTruthy(r) == r.kind = "list" \/ (r.kind = "map" /\ r.keys # {})

\* policy.reviewers.get('teams', [])
ReviewersTeams(r) == IF "teams" \in r.keys THEN r.teams ELSE <<>>

EmptyResult ==
    [status |-> "ok", allowed |-> TRUE, violations |-> <<>>,
     warnings |-> <<>>, required_reviewers |-> <<>>]

RaisedResult ==
    [status |-> "raised", allowed |-> TRUE, violations |-> <<>>,
     warnings |-> <<>>, required_reviewers |-> <<>>]

NoResult ==
    [status |-> "none", allowed |-> TRUE, violations |-> <<>>,
     warnings |-> <<>>, required_reviewers |-> <<>>]

Violation(p, er) ==
    [policy_name |-> p.name, message |-> er.message,
     files |-> er.matched_files]

Warning(p, er) == [policy_name |-> p.name, message |-> er.message]

\* Mutants of the fold: a triggered warn policy also clears `allowed`;
\* a triggered allow policy leaves a warning; reviewer teams already listed
\* are not added again; the loop body does nothing once a block policy has
\* triggered.
ApplyActionWarnBlocks(res, p, er) ==
        IF er.raised THEN RaisedResult
        ELSE IF ~er.triggered THEN res
        ELSE IF p.action = "BLOCK"
        THEN [res EXCEPT !.allowed = FALSE,
                         !.violations = Append(@, Violation(p, er))]
        ELSE IF p.action = "WARN"
        THEN [res EXCEPT !.allowed = FALSE,
                         !.warnings = Append(@, Warning(p, er))]
        ELSE IF p.action = "REQUIRE_REVIEW"
        THEN IF ReviewersTruthy(p.reviewers)
             THEN IF p.reviewers.kind # "map" THEN RaisedResult
                  ELSE [res EXCEPT !.required_reviewers =
                                       @ \o ReviewersTeams(p.reviewers)]
             ELSE res
        ELSE res

ApplyActionAllowWarns(res, p, er) ==
        IF er.raised THEN RaisedResult
        ELSE IF ~er.triggered THEN res
        ELSE IF p.action = "BLOCK"
        THEN [res EXCEPT !.allowed = FALSE,
                         !.violations = Append(@, Violation(p, er))]
        ELSE IF p.action = "REQUIRE_REVIEW"
        THEN IF ReviewersTruthy(p.reviewers)
             THEN IF p.reviewers.kind # "map" THEN RaisedResult
                  ELSE [res EXCEPT !.required_reviewers =
                                       @ \o ReviewersTeams(p.reviewers)]
             ELSE res
        ELSE [res EXCEPT !.warnings = Append(@, Warning(p, er))]

ApplyActionDedup(res, p, er) ==
    LET listed == {res.required_reviewers[k] :
                      k \in 1..Len(res.required_reviewers)}
        IsNew(t) == t \notin listed
    IN  IF er.raised THEN RaisedResult
        ELSE IF ~er.triggered THEN res
        ELSE IF p.action = "BLOCK"
        THEN [res EXCEPT !.allowed = FALSE,
                         !.violations = Append(@, Violation(p, er))]
        ELSE IF p.action = "WARN"
        THEN [res EXCEPT !.warnings = Append(@, Warning(p, er))]
        ELSE IF p.action = "REQUIRE_REVIEW"
        THEN IF ReviewersTruthy(p.reviewers)
             THEN IF p.reviewers.kind # "map" THEN RaisedResult
                  ELSE [res EXCEPT !.required_reviewers =
                           @ \o SelectSeq(ReviewersTeams(p.reviewers), IsNew)]
             ELSE res
        ELSE res

ApplyActionStopAfterBlock(res, p, er) ==
        IF er.raised THEN RaisedResult
        ELSE IF ~er.triggered \/ ~res.allowed THEN res
        ELSE IF p.action = "BLOCK"
        THEN [res EXCEPT !.allowed = FALSE,
                         !.violations = Append(@, Violation(p, er))]
        ELSE IF p.action = "WARN"
        THEN [res EXCEPT !.warnings = Append(@, Warning(p, er))]
        ELSE IF p.action = "REQUIRE_REVIEW"
        THEN IF ReviewersTruthy(p.reviewers)
             THEN IF p.reviewers.kind # "map" THEN RaisedResult
                  ELSE [res EXCEPT !.required_reviewers =
                                       @ \o ReviewersTeams(p.reviewers)]
             ELSE res
        ELSE res

\* Lines 144-160 of evaluate(): the action of a triggered policy is folded
\* into the result; er is what _evaluate_policy returned (or that it raised).
ApplyAction(res, p, er) ==
        IF er.raised THEN RaisedResult
        ELSE IF ~er.triggered THEN res
        ELSE IF p.action = "BLOCK"
        THEN [res EXCEPT !.allowed = FALSE,
                         !.violations = Append(@, Violation(p, er))]
        ELSE IF p.action = "WARN"
        THEN [res EXCEPT !.warnings = Append(@, Warning(p, er))]
        ELSE IF p.action = "REQUIRE_REVIEW"
        THEN IF ReviewersTruthy(p.reviewers)
             THEN IF p.reviewers.kind # "map" THEN RaisedResult
                  ELSE [res EXCEPT !.required_reviewers =
                                       @ \o ReviewersTeams(p.reviewers)]
             ELSE res
        ELSE res

\* One iteration of the loop of evaluate().
ApplyPolicy(res, p, a) ==
    CHOOSE out \in
        {ApplyAction(res, p, er) : er \in {EvaluatePolicy(p, a)}} : TRUE

\* evaluate(analysis) over self.policies, left to right; an exception in
\* one iteration ends the call.
RECURSIVE EvaluateFrom(_, _, _)
EvaluateFrom(res, policies, a) ==
    IF policies = <<>> \/ res.status = "raised" THEN res
    ELSE CHOOSE out \in
             { EvaluateFrom(next, Tail(policies), a) :
                 next \in {ApplyPolicy(res, Head(policies), a)} } : TRUE

Evaluate(policies, a) == EvaluateFrom(EmptyResult, policies, a)

(***************************************************************************)
(* Configuration load.                                                     *)
(***************************************************************************)
ActionValues == {"allow", "block", "warn", "require_reviewers"}

\* Action(action_str): lookup of an enum member by value
ActionOf(action_str) ==
    IF action_str = "allow" THEN "ALLOW"
    ELSE IF action_str = "block" THEN "BLOCK"
    ELSE IF action_str = "warn" THEN "WARN"
    ELSE "REQUIRE_REVIEW"

\* The body of the loop of _parse_policies for one policy mapping p.
ParsePolicy(p) ==
    LET trigger_dict == Get(p, "trigger", [checks |-> <<>>])
        action_str == Get(p, "action", "allow")
    IN  [name |-> Get(p, "name", "unnamed"),
         description |-> Get(p, "description", ""),
         trigger |->
            [ai_confidence |-> Get(trigger_dict, "ai_confidence", NoneV),
             ai_percentage |-> Get(trigger_dict, "ai_percentage", NoneV),
             lines_changed |-> Get(trigger_dict, "lines_changed", NoneV),
             review_time |-> Get(trigger_dict, "review_time", NoneV),
             paths |-> Get(p, "paths", <<>>),
             checks |-> Get(trigger_dict, "checks", <<>>)],
         action |-> IF action_str = "block_on_fail" THEN "BLOCK"
                    ELSE ActionOf(action_str),
         message |-> Get(p, "message", ""),
         reviewers |-> Get(p, "reviewers", NoReviewers)]

\* Action(action_str) raises ValueError for a value outside the enum.
ParseRaises(p) ==
    LET action_str == Get(p, "action", "allow")
    IN  action_str # "block_on_fail" /\ action_str \notin ActionValues

\* PolicyEngine.__init__ / _parse_policies
PolicyEngineInit(policy_dicts) ==
    IF \E k \in 1..Len(policy_dicts) : ParseRaises(policy_dicts[k])
    THEN [status |-> "error", policies |-> <<>>]
    ELSE [status |-> "ok",
          policies |-> [k \in 1..Len(policy_dicts) |->
                           ParsePolicy(policy_dicts[k])]]

(***************************************************************************)
(* Inputs.                                                                 *)
(***************************************************************************)
\* All sequences over S of length at most n
RECURSIVE SeqsUpTo(_, _)
SeqsUpTo(S, n) ==
    IF n = 0 THEN {<<>>}
    ELSE LET shorter == SeqsUpTo(S, n - 1)
         IN  shorter \cup {Append(q, x) : q \in shorter, x \in S}

NoDuplicates(q) == \A j, k \in 1..Len(q) : j # k => q[j] # q[k]

\* Threshold expressions
GT70PCT == Str(<<">", " ", "7", "0", "%">>)
GT50PCT == Str(<<">", " ", "5", "0", "%">>)
GT30PCT == Str(<<">", " ", "3", "0", "%">>)
GT100 == Str(<<">", " ", "1", "0", "0">>)
GE70 == Str(<<">", "=", "7", "0">>)
LE30 == Str(<<"<", "=", " ", "3", "0">>)
EQ69 == Str(<<" ", "=", "=", " ", "6", "9", " ">>)
EQ1_69 == Str(<<"=", " ", "6", "9", ".", "0">>)
LT69_5 == Str(<<"<", " ", "6", "9", ".", "5">>)
EMPTY == Str(<<>>)
EQGT5 == Str(<<"=", ">", " ", "5">>)
LTGT5 == Str(<<"<", ">", " ", "5">>)
GT70X == Str(<<">", " ", "7", "0", " ", "o", "r", " ", "s", "o">>)
BOGUS == Str(<<"~", "~", "b", "o", "g", "u", "s">>)
GTONLY == Str(<<">">>)
LT2MIN == Str(<<"<", " ", "2", " ", "m", "i", "n", "u", "t", "e", "s">>)
GE1HOUR == Str(<<">", "=", " ", "1", " ", "h", "o", "u", "r">>)
LE90SEC == Str(<<"<", "=", "9", "0", " ", "s", "e", "c", "o", "n", "d", "s">>)
LT2 == Str(<<"<", " ", "2">>)
SOON == Str(<<"s", "o", "o", "n">>)

\* Paths and glob patterns
LOGIN_TS == <<"s", "r", "c", "/", "a", "u", "t", "h", "/", "l", "o", "g", "i", "n", ".", "t", "s">>
HELPERS_TS == <<"s", "r", "c", "/", "u", "t", "i", "l", "s", "/", "h", "e", "l", "p", "e", "r", "s", ".", "t", "s">>
MW_AUTH_TS == <<"a", "p", "p", "/", "m", "i", "d", "d", "l", "e", "w", "a", "r", "e", "/", "a", "u", "t", "h", ".", "t", "s">>
SRC_AUTH == <<"s", "r", "c", "/", "a", "u", "t", "h", "/", "*", "*">>
SRC_SECURITY == <<"s", "r", "c", "/", "s", "e", "c", "u", "r", "i", "t", "y", "/", "*", "*">>
MW_AUTH == <<"*", "*", "/", "m", "i", "d", "d", "l", "e", "w", "a", "r", "e", "/", "a", "u", "t", "h", "*">>
SRC_ANY == <<"s", "r", "c", "/", "*">>
ANY_TS == <<"*", ".", "t", "s">>

FilePool ==
    { [path |-> LOGIN_TS, ai_confidence |-> Rat(92, 100), lines_changed |-> 45],
      [path |-> HELPERS_TS, ai_confidence |-> Rat(35, 100), lines_changed |-> 20],
      [path |-> MW_AUTH_TS, ai_confidence |-> Rat(60, 100), lines_changed |-> 10] }

FileLists == {q \in SeqsUpTo(FilePool, MaxFiles) : NoDuplicates(q)}

Secret == [type |-> "hardcoded_secret", severity |-> "critical"]
SqlInj == [type |-> "sql_injection", severity |-> "high"]
Xss == [type |-> "xss", severity |-> "low"]
Eval == [type |-> "eval_usage", severity |-> "critical"]

MkAnalysis(fs, conf, pct, lines, rt, issues) ==
    [files |-> fs, max_ai_confidence |-> conf, ai_percentage |-> pct,
     total_lines_changed |-> lines, review_time_seconds |-> rt,
     security_issues |-> issues]

\* Policy mappings as yaml.safe_load returns them: the four policies of
\* EXAMPLE_CONFIG and variants of them.
NoAiInAuth ==
    [name |-> "no-ai-in-auth",
     description |-> "AI-generated code not allowed in authentication",
     trigger |-> [ai_confidence |-> GT70PCT],
     paths |-> <<SRC_AUTH, SRC_SECURITY, MW_AUTH>>,
     action |-> "block",
     message |-> "AI-generated code requires senior review in auth modules"]

HighAiReview ==
    [name |-> "high-ai-review",
     description |-> "PRs with >50% AI code need senior review",
     trigger |-> [ai_percentage |-> GT50PCT, lines_changed |-> GT100],
     action |-> "require_reviewers",
     reviewers |-> ReviewersMap({"teams", "min_approvals"},
                                <<"senior-engineers">>)]

ReviewQuality ==
    [name |-> "review-quality",
     description |-> "Flag PRs approved too quickly",
     trigger |-> [review_time |-> LT2MIN, ai_percentage |-> GT30PCT],
     action |-> "warn",
     message |-> "This PR was approved quickly. Please verify AI-generated sections."]

SecurityGate ==
    [name |-> "security-gate",
     description |-> "Block on security vulnerabilities",
     trigger |-> [ai_confidence |-> GT50PCT,
                  checks |-> <<"hardcoded_secrets", "sql_injection",
                               "xss_patterns">>],
     action |-> "block_on_fail"]

Documented ==
    [name |-> "documented", action |-> "allow", message |-> "for the record"]

AnyAiReview ==
    [name |-> "any-ai-review",
     trigger |-> [ai_confidence |-> GT30PCT],
     action |-> "require_reviewers",
     reviewers |-> ReviewersMap({"teams"},
                                <<"security-leads", "senior-engineers">>)]

NoAction ==
    [name |-> "no-action", trigger |-> [lines_changed |-> GT100],
     message |-> "large change"]

UnknownAction ==
    [name |-> "unknown-action", action |-> "deny", message |-> "denied"]

NumericThreshold ==
    [name |-> "numeric-threshold", trigger |-> [lines_changed |-> Num(100)],
     action |-> "warn", message |-> "large change"]

ReviewersAsList ==
    [name |-> "reviewers-as-list",
     trigger |-> [ai_percentage |-> GT50PCT],
     action |-> "require_reviewers",
     reviewers |-> ReviewersList(<<"senior-engineers">>)]

PolicyPool ==
    { NoAiInAuth, HighAiReview, ReviewQuality, SecurityGate, Documented,
      AnyAiReview, NoAction, UnknownAction, NumericThreshold,
      ReviewersAsList }

\* yaml.safe_load(EXAMPLE_CONFIG)['policies']
ExampleConfig == <<NoAiInAuth, HighAiReview, ReviewQuality, SecurityGate>>

ConfigPool == SeqsUpTo(PolicyPool, MaxPolicies) \cup {ExampleConfig}

\* Commit-wide aggregates (max_ai_confidence, ai_percentage,
\* total_lines_changed) as a caller of evaluate_commit supplies them.
AggregatePool ==
    { <<Rat(92, 100), Rat(69, 1), 65>>,
      <<Rat(92, 100), Rat(69, 1), 150>>,
      <<Rat(35, 100), Rat(20, 1), 150>> }

CommitFiles ==
    { <<>>,
      <<[path |-> HELPERS_TS, ai_confidence |-> Rat(35, 100),
         lines_changed |-> 20]>>,
      <<[path |-> LOGIN_TS, ai_confidence |-> Rat(92, 100),
         lines_changed |-> 45],
        [path |-> HELPERS_TS, ai_confidence |-> Rat(35, 100),
         lines_changed |-> 20]>> }

AnalysisPool ==
    { MkAnalysis(fs, g[1], g[2], g[3], rt, issues) :
        fs \in CommitFiles, g \in AggregatePool,
        rt \in {NoInt, SomeInt(90)},
        issues \in {<<>>, <<Secret>>} }

(***************************************************************************)
(* The engine: construction and evaluation.                                *)
(***************************************************************************)
NoEngine == [status |-> "none", policies |-> <<>>]
NoAnalysis == MkAnalysis(<<>>, Rat(0, 1), Rat(0, 1), 0, NoInt, <<>>)
NoTrigger ==
    [ai_confidence |-> NoneV, ai_percentage |-> NoneV,
     lines_changed |-> NoneV, review_time |-> NoneV,
     paths |-> <<>>, checks |-> <<>>]
NoPolicy ==
    [name |-> "", description |-> "", trigger |-> NoTrigger,
     action |-> "ALLOW", message |-> "", reviewers |-> NoReviewers]
NoCall == [called |-> FALSE, raised |-> FALSE, val |-> FALSE]
NoPolicyCall ==
    [called |-> FALSE, raised |-> FALSE, triggered |-> FALSE,
     message |-> "", matched_files |-> <<>>]

NoCompare ==
    [called |-> FALSE, operator |-> <<>>, text |-> <<>>,
     threshold |-> Rat(0, 1), condition |-> NoneV, value |-> Rat(0, 1),
     raised |-> FALSE, val |-> FALSE]
NoDetector == [status |-> "none"]
NoDetection == [called |-> FALSE]
NoScore == [called |-> FALSE]
NoCalls == <<>>

Init ==
    /\ config = <<>>
    /\ engine = NoEngine
    /\ analysis = NoAnalysis
    /\ result = NoResult
    /\ trigger = NoTrigger
    /\ tmAnalysis = NoAnalysis
    /\ tmResult = NoCall
    /\ policy = NoPolicy
    /\ epAnalysis = NoAnalysis
    /\ epResult = NoPolicyCall
    /\ cmp = NoCompare
    /\ detector = NoDetector
    /\ detection = NoDetection
    /\ score = NoScore
    /\ calls = NoCalls

\* engine = PolicyEngine(config_yaml)
Construct ==
    /\ engine.status = "none"
    /\ \E doc \in ConfigPool :
          /\ config' = doc
          /\ engine' = PolicyEngineInit(doc)
    /\ UNCHANGED <<analysis, result, trigger, tmAnalysis, tmResult,
                   policy, epAnalysis, epResult, cmp, detVars, calls>>

\* result = engine.evaluate(analysis)
EvaluateCall ==
    /\ engine.status = "ok"
    /\ result.status = "none"
    /\ \E a \in AnalysisPool :
          /\ analysis' = a
          /\ result' = Evaluate(engine.policies, a)
    /\ UNCHANGED <<config, engine, trigger, tmAnalysis, tmResult,
                   policy, epAnalysis, epResult, cmp, detVars, calls>>

\* The caller is done with the result; the engine is kept for the next
\* request.
Return ==
    /\ result.status # "none"
    /\ analysis' = NoAnalysis
    /\ result' = NoResult
    /\ UNCHANGED <<config, engine, trigger, tmAnalysis, tmResult,
                   policy, epAnalysis, epResult, cmp, detVars, calls>>

Next == Construct \/ EvaluateCall \/ Return

Spec == Init /\ [][Next]_vars

(***************************************************************************)
(* Properties of evaluate() and of the configuration load (Spec).          *)
(***************************************************************************)
Returned == result.status = "ok"

PolicyIndices == 1..Len(engine.policies)

\* Policy i triggers on the analysis of the current call.
Triggers(i) == EvaluatePolicy(engine.policies[i], analysis).triggered

TriggeredWith(action) ==
    {i \in PolicyIndices : engine.policies[i].action = action /\ Triggers(i)}

\* The elements of a finite set of integers in increasing order
InOrder(I) ==
    CHOOSE q \in [1..Cardinality(I) -> I] :
        \A j, k \in 1..Cardinality(I) : j < k => q[j] < q[k]

\* C1: evaluate() returns allowed = false if and only if at least one policy
\* whose action is block triggers on the analysis; otherwise allowed = true.
C1_AllowedIffNoBlockTriggers ==
    Returned => (result.allowed <=> TriggeredWith("BLOCK") = {})

\* A call in which a block policy and a policy of another action trigger.
C1_Witness ==
    /\ Returned
    /\ ~result.allowed
    /\ TriggeredWith("BLOCK") # {}
    /\ TriggeredWith("WARN") # {}

\* The configuration without the policies whose action is allow
NotAllow(p) == p.action # "ALLOW"

\* C2: the violations are one per triggered block policy, in policy order,
\* each with the policy's name, its message and its matched files; the
\* warnings are one per triggered warn policy, in policy order; allow
\* policies add nothing to the result; with no policy triggered the three
\* lists are empty.
C2_OneEntryPerTriggeredPolicy ==
    Returned =>
        LET blocks == InOrder(TriggeredWith("BLOCK"))
            warns == InOrder(TriggeredWith("WARN"))
        IN  /\ result.violations =
                  [k \in 1..Len(blocks) |->
                      [policy_name |-> engine.policies[blocks[k]].name,
                       message |-> engine.policies[blocks[k]].message,
                       files |-> EvaluatePolicy(engine.policies[blocks[k]],
                                                analysis).matched_files]]
            /\ result.warnings =
                  [k \in 1..Len(warns) |->
                      [policy_name |-> engine.policies[warns[k]].name,
                       message |-> engine.policies[warns[k]].message]]
            /\ result = Evaluate(SelectSeq(engine.policies, NotAllow),
                                 analysis)
            /\ (\A i \in PolicyIndices : ~Triggers(i)) =>
                  /\ result.violations = <<>>
                  /\ result.warnings = <<>>
                  /\ result.required_reviewers = <<>>

\* A call in which an allow policy triggers next to a policy that leaves a
\* violation or a warning.
C2_Witness ==
    /\ Returned
    /\ TriggeredWith("ALLOW") # {}
    /\ \/ result.violations # <<>>
       \/ result.warnings # <<>>

\* The team list configured for policy i of the loaded document
ConfiguredTeams(i) ==
    LET r == Get(config[i], "reviewers", NoReviewers)
    IN  IF r.kind = "map" /\ "teams" \in r.keys THEN r.teams ELSE <<>>

RECURSIVE ConcatTeams(_)
ConcatTeams(indices) ==
    IF indices = <<>> THEN <<>>
    ELSE ConfiguredTeams(Head(indices)) \o ConcatTeams(Tail(indices))

\* C3: required_reviewers is the concatenation, in policy order, of the
\* configured team lists of the triggered require_reviewers policies, with
\* duplicates kept.
C3_ReviewersConcatenated ==
    Returned =>
        result.required_reviewers =
            ConcatTeams(InOrder(TriggeredWith("REQUIRE_REVIEW")))

\* Two require_reviewers policies triggered and one team listed twice.
C3_Witness ==
    /\ Returned
    /\ Cardinality(TriggeredWith("REQUIRE_REVIEW")) >= 2
    /\ \E j, k \in 1..Len(result.required_reviewers) :
          j # k /\ result.required_reviewers[j] = result.required_reviewers[k]

\* C8: construction fails whenever some policy's action is missing or is not
\* one of allow, block, warn, require_reviewers.
C8_LoadRejectsOtherActions ==
    engine.status = "ok" =>
        \A i \in 1..Len(config) :
            /\ "action" \in DOMAIN config[i]
            /\ config[i].action \in ActionValues

\* C9: once construction has succeeded, evaluate() never raises.
C9_EvaluateNeverRaises ==
    engine.status = "ok" => result.status # "raised"

Perms(n) ==
    {f \in [1..n -> 1..n] : \A j, k \in 1..n : f[j] = f[k] => j = k}

Permuted(q, f) == [k \in 1..Len(q) |-> q[f[k]]]

SeqToBag(q) ==
    [x \in {q[k] : k \in 1..Len(q)} |->
        Cardinality({k \in 1..Len(q) : q[k] = x})]

\* C10: evaluating any permutation of the policy list gives the same allowed
\* value and the same multisets of violations, warnings and reviewers.
C10_PermutationInvariant ==
    result.status # "none" =>
        \A f \in Perms(Len(engine.policies)) :
            LET r == Evaluate(Permuted(engine.policies, f), analysis)
            IN  /\ r.status = result.status
                /\ r.allowed = result.allowed
                /\ SeqToBag(r.violations) = SeqToBag(result.violations)
                /\ SeqToBag(r.warnings) = SeqToBag(result.warnings)
                /\ SeqToBag(r.required_reviewers) =
                       SeqToBag(result.required_reviewers)

\* A call whose result lists depend on the order of the policies.
C10_Witness ==
    /\ Returned
    /\ ~result.allowed
    /\ \E f \in Perms(Len(engine.policies)) :
          Evaluate(Permuted(engine.policies, f), analysis) # result

\* test_analysis of the module's __main__ block
TestAnalysis ==
    MkAnalysis(<<[path |-> LOGIN_TS, ai_confidence |-> Rat(92, 100),
                  lines_changed |-> 45],
                 [path |-> HELPERS_TS, ai_confidence |-> Rat(35, 100),
                  lines_changed |-> 20]>>,
               Rat(92, 100), Rat(69, 1), 65, SomeInt(90), <<>>)

\* The sample commit, whatever its review time
IsSampleCommit(a) ==
    /\ a.files = TestAnalysis.files
    /\ a.max_ai_confidence = Rat(92, 100)
    /\ a.ai_percentage = Rat(69, 1)
    /\ a.total_lines_changed = 65
    /\ a.security_issues = <<>>

\* C11: the example policy set evaluated on the sample commit (login.ts at
\* 0.92, helpers.ts at 0.35, maximum 0.92, ai_percentage 69, 65 lines, no
\* security issue) gives allowed = false and exactly one violation, that of
\* no-ai-in-auth on src/auth/login.ts, and no required reviewer, because
\* high-ai-review (ai_percentage > 50 and lines_changed > 100) does not
\* trigger.
C11_ExampleOnSampleCommit ==
    (Returned /\ config = ExampleConfig /\ IsSampleCommit(analysis)) =>
        /\ ~result.allowed
        /\ result.violations =
              <<[policy_name |-> "no-ai-in-auth",
                 message |-> NoAiInAuth.message,
                 files |-> <<LOGIN_TS>>]>>
        /\ result.required_reviewers = <<>>
        /\ ~EvaluatePolicy(engine.policies[2], analysis).triggered

\* evaluate_commit(EXAMPLE_CONFIG, test_analysis) has returned.
C11_Witness ==
    /\ Returned
    /\ config = ExampleConfig
    /\ analysis = TestAnalysis
    /\ Len(result.violations) = 1
    /\ Len(result.warnings) = 1

\* The sums and the maximum the data model relates the aggregates to
RECURSIVE SumLines(_)
SumLines(files) ==
    IF files = <<>> THEN 0
    ELSE Head(files).lines_changed + SumLines(Tail(files))

\* A file counts as ai-generated when its probability is above 0.7.
IsAiGenerated(f) == RatLt(Rat(7, 10), f.ai_confidence)

IsMaxOf(x, files) ==
    /\ \E k \in 1..Len(files) : RatEq(files[k].ai_confidence, x)
    /\ \A k \in 1..Len(files) : ~RatLt(x, files[k].ai_confidence)

\* C19: every analysis that reaches rule evaluation has max_ai_confidence
\* equal to the maximum of its files' probabilities (when it has files) and
\* ai_percentage equal to 100 times the changed lines of its ai-generated
\* files over all changed lines, within [0, 100], and 0 without lines.
C19_AggregatesConsistent ==
    result.status # "none" =>
        LET total == SumLines(analysis.files)
            ai == SumLines(SelectSeq(analysis.files, IsAiGenerated))
        IN  /\ analysis.files # <<>> =>
                  IsMaxOf(analysis.max_ai_confidence, analysis.files)
            /\ IF total = 0
               THEN RatEq(analysis.ai_percentage, Rat(0, 1))
               ELSE RatEq(analysis.ai_percentage, Rat(100 * ai, total))
            /\ ~RatLt(analysis.ai_percentage, Rat(0, 1))
            /\ ~RatLt(Rat(100, 1), analysis.ai_percentage)

(***************************************************************************)
(* _trigger_matches called on its own (SpecTrigger).                       *)
(***************************************************************************)
ConfidenceConds ==
    {NoneV, GT70PCT, GE70, EMPTY, EQGT5, LTGT5, GT70X, BOGUS, GTONLY, Num(70)}
PercentageConds == {NoneV, GT50PCT, LE30, EQ69, EQ1_69, LT69_5}
LinesConds == {NoneV, GT100, EMPTY}
ReviewConds == {NoneV, LT2MIN, GE1HOUR, LE90SEC, LT2, SOON}

TriggerPool ==
    { [ai_confidence |-> c1, ai_percentage |-> c2, lines_changed |-> c3,
       review_time |-> c4, paths |-> <<>>, checks |-> <<>>] :
        c1 \in ConfidenceConds, c2 \in PercentageConds,
        c3 \in LinesConds, c4 \in ReviewConds }

TriggerAnalysisPool ==
    { MkAnalysis(<<>>, conf, pct, lines, rt, <<>>) :
        conf \in {Rat(70, 100), Rat(92, 100)},
        pct \in {Rat(30, 1), Rat(69, 1)},
        lines \in {65, 150},
        rt \in {NoInt, SomeInt(90), SomeInt(119), SomeInt(120),
                 SomeInt(3600)} }

\* self._trigger_matches(trigger, analysis)
TriggerMatchesCall ==
    /\ ~tmResult.called
    /\ \E t \in TriggerPool, a \in TriggerAnalysisPool :
          /\ trigger' = t
          /\ tmAnalysis' = a
          /\ tmResult' = [called |-> TRUE] @@ TriggerMatches(t, a)
    /\ UNCHANGED <<config, engine, analysis, result,
                   policy, epAnalysis, epResult, cmp, detVars, calls>>

NextTrigger == TriggerMatchesCall

SpecTrigger == Init /\ [][NextTrigger]_vars

Matched == tmResult.called /\ ~tmResult.raised /\ tmResult.val

\* A condition is present when the trigger carries an expression for it.
Present(c) == c.kind # "none" /\ ~(c.kind = "str" /\ c.s = <<>>)

Holds(c, value) == c.kind = "str" /\ CompareThreshold(c, value).val

\* C4: the trigger matches only if every condition present in it holds,
\* ai_confidence against the maximum probability in percent, ai_percentage
\* against ai_percentage, lines_changed against total_lines_changed and
\* review_time against review_time_seconds, whether or not the analysis has
\* a review time.
C4_MatchesOnlyIfAllPresentHold ==
    Matched =>
        /\ Present(trigger.ai_confidence) =>
              Holds(trigger.ai_confidence,
                    Rat(tmAnalysis.max_ai_confidence.n * 100,
                        tmAnalysis.max_ai_confidence.d))
        /\ Present(trigger.ai_percentage) =>
              Holds(trigger.ai_percentage, tmAnalysis.ai_percentage)
        /\ Present(trigger.lines_changed) =>
              Holds(trigger.lines_changed,
                    Rat(tmAnalysis.total_lines_changed, 1))
        /\ Present(trigger.review_time) =>
              /\ tmAnalysis.review_time_seconds.some
              /\ trigger.review_time.kind = "str"
              /\ CompareTimeThreshold(trigger.review_time,
                    tmAnalysis.review_time_seconds.v).val

\* The grammar of a threshold expression: one of the six operators, a
\* decimal number, an optional '%', with optional blanks between them.
ThresholdOps ==
    { <<">">>, <<">", "=">>, <<"<">>, <<"<", "=">>, <<"=", "=">>, <<"=">> }

IsDigits(q) == q # <<>> /\ \A k \in 1..Len(q) : q[k] \in Digits

IsNumber(q) ==
    \/ IsDigits(q)
    \/ \E k \in 1..Len(q) :
          /\ q[k] = "."
          /\ IsDigits(SubSeq(q, 1, k - 1))
          /\ IsDigits(SubSeq(q, k + 1, Len(q)))

WellFormedThreshold(s) ==
    \E k \in 1..Len(s) :
        /\ SubSeq(s, 1, k) \in ThresholdOps
        /\ LET rest == Strip(SubSeq(s, k + 1, Len(s)))
           IN  \/ IsNumber(rest)
               \/ /\ rest # <<>>
                  /\ rest[Len(rest)] = "%"
                  /\ IsNumber(Strip(SubSeq(rest, 1, Len(rest) - 1)))

Malformed(c) == c.kind = "str" /\ ~WellFormedThreshold(Strip(c.s))

\* C5: a trigger that carries a malformed threshold expression (the empty
\* string, an operator such as '=>' or '<>', trailing garbage after the
\* number) matches no analysis.
C5_MalformedNeverMatches ==
    (/\ tmResult.called
     /\ \/ Malformed(trigger.ai_confidence)
        \/ Malformed(trigger.ai_percentage)
        \/ Malformed(trigger.lines_changed))
    => ~tmResult.val

(***************************************************************************)
(* _evaluate_policy called on its own (SpecPolicy).                        *)
(***************************************************************************)
CheckNames ==
    {"hardcoded_secrets", "sql_injection", "xss_patterns", "license_scan"}

IssueLists ==
    { <<>>, <<Secret>>, <<SqlInj>>, <<Eval>>, <<Eval, Xss>>, <<Xss, Secret>> }

PathsPool == { <<>>, <<SRC_AUTH, MW_AUTH>>, <<SRC_ANY, ANY_TS>> }

SinglePolicyPool ==
    { [name |-> "gate", description |-> "",
       trigger |-> [NoTrigger EXCEPT !.ai_confidence = c,
                                     !.paths = ps, !.checks = cks],
       action |-> "BLOCK", message |-> "blocked",
       reviewers |-> NoReviewers] :
        c \in {NoneV, GT70PCT}, ps \in PathsPool,
        cks \in {q \in SeqsUpTo(CheckNames, MaxChecks) : NoDuplicates(q)} }

PolicyAnalysisPool ==
    { MkAnalysis(fs, conf, Rat(69, 1), 65, NoInt, issues) :
        fs \in FileLists, conf \in {Rat(35, 100), Rat(92, 100)},
        issues \in IssueLists }

\* self._evaluate_policy(policy, analysis)
EvaluatePolicyCall ==
    /\ ~epResult.called
    /\ \E p \in SinglePolicyPool, a \in PolicyAnalysisPool :
          /\ policy' = p
          /\ epAnalysis' = a
          /\ epResult' = [called |-> TRUE] @@ EvaluatePolicy(p, a)
    /\ UNCHANGED <<config, engine, analysis, result,
                   trigger, tmAnalysis, tmResult, cmp, detVars, calls>>

NextPolicy == EvaluatePolicyCall

SpecPolicy == Init /\ [][NextPolicy]_vars

\* The threshold conditions of the policy hold on the analysis.
ThresholdsSatisfied ==
    /\ epResult.called
    /\ ~epResult.raised
    /\ TriggerMatches(policy.trigger, epAnalysis).val

\* The indices of the files of the analysis that match at least one glob
GlobMatched ==
    {k \in 1..Len(epAnalysis.files) :
        \E j \in 1..Len(policy.trigger.paths) :
            fnmatch(epAnalysis.files[k].path, policy.trigger.paths[j])}

PathsSatisfied == policy.trigger.paths = <<>> \/ GlobMatched # {}

IssueTypes ==
    {epAnalysis.security_issues[k].type :
        k \in 1..Len(epAnalysis.security_issues)}

\* A named check fails: an issue of its type is among the security issues.
CheckFails(check) ==
    \/ check = "hardcoded_secrets" /\ "hardcoded_secret" \in IssueTypes
    \/ check = "sql_injection" /\ "sql_injection" \in IssueTypes
    \/ check = "xss_patterns" /\ "xss" \in IssueTypes

\* C6: a policy with named security checks whose threshold and path
\* conditions are satisfied triggers exactly when at least one of its named
\* checks fails, whatever the severity of the issues.
C6_TriggersIffSomeCheckFails ==
    (ThresholdsSatisfied /\ PathsSatisfied /\ policy.trigger.checks # <<>>)
    => (epResult.triggered <=>
            \E k \in 1..Len(policy.trigger.checks) :
                CheckFails(policy.trigger.checks[k]))

\* A policy whose first named check passes and whose second one fails.
C6_Witness ==
    /\ ThresholdsSatisfied
    /\ PathsSatisfied
    /\ Len(policy.trigger.checks) >= 2
    /\ ~CheckFails(policy.trigger.checks[1])
    /\ CheckFails(policy.trigger.checks[2])
    /\ epResult.triggered

\* The paths of the glob-matched files, in analysis order, each file once
ExpectedMatched ==
    LET idx == InOrder(GlobMatched)
    IN  [k \in 1..Len(idx) |-> epAnalysis.files[idx[k]].path]

\* C7: with globs declared, the matched files are the paths of the files
\* that match at least one glob, in analysis order and each once, and the
\* policy does not trigger when there is none; without globs they are the
\* paths of all files; the violation of a triggered policy carries them.
C7_MatchedFiles ==
    ThresholdsSatisfied =>
        LET expected == IF policy.trigger.paths # <<>>
                        THEN ExpectedMatched
                        ELSE [k \in 1..Len(epAnalysis.files) |->
                                 epAnalysis.files[k].path]
        IN  /\ epResult.matched_files = expected
            /\ (policy.trigger.paths # <<>> /\ expected = <<>>)
                  => ~epResult.triggered
            /\ epResult.triggered =>
                  Evaluate(<<policy>>, epAnalysis).violations
                      = <<[policy_name |-> policy.name,
                           message |-> policy.message,
                           files |-> expected]>>

\* A triggered policy with two globs: one file matches both of them, the
\* other file only one, and each file is listed once.
C7_Witness ==
    /\ ThresholdsSatisfied
    /\ epResult.triggered
    /\ Len(policy.trigger.paths) = 2
    /\ Len(epAnalysis.files) = 2
    /\ Len(epResult.matched_files) = 2
    /\ \E k \in GlobMatched :
          \A j \in 1..Len(policy.trigger.paths) :
              fnmatch(epAnalysis.files[k].path, policy.trigger.paths[j])
    /\ \E k \in GlobMatched :
          \E j \in 1..Len(policy.trigger.paths) :
              ~fnmatch(epAnalysis.files[k].path, policy.trigger.paths[j])

(***************************************************************************)
(* _compare_threshold called on its own (SpecThreshold).                   *)
(***************************************************************************)
\* Decimal numerals and the numbers they denote
Numerals ==
    { [text |-> <<"0">>, value |-> Rat(0, 1)],
      [text |-> <<"1", "0">>, value |-> Rat(10, 1)],
      [text |-> <<"5", "0">>, value |-> Rat(50, 1)],
      [text |-> <<"7", "0">>, value |-> Rat(70, 1)],
      [text |-> <<"6", "9", ".", "5">>, value |-> Rat(139, 2)],
      [text |-> <<"7", "0", ".", "0", "5">>, value |-> Rat(1401, 20)],
      [text |-> <<"0", "7", "0", ".", "0">>, value |-> Rat(70, 1)] }

\* What may stand between the operator and the numeral, and after it
Gaps == { <<>>, <<" ">> }
Suffixes == { <<>>, <<"%">>, <<" ", "%">>, <<"%", " ">> }

ComparedValues ==
    { Rat(0, 1), Rat(10, 1), Rat(30, 1), Rat(139, 2), Rat(70, 1),
      Rat(1401, 20), Rat(85, 1) }

\* self._compare_threshold(condition, value)
CompareThresholdCall ==
    /\ ~cmp.called
    /\ \E operator \in ThresholdOps, num \in Numerals, gap \in Gaps,
          suffix \in Suffixes, value \in ComparedValues :
          LET condition == Str(operator \o gap \o num.text \o suffix)
          IN  cmp' = [called |-> TRUE, operator |-> operator,
                      text |-> num.text, threshold |-> num.value,
                      condition |-> condition, value |-> value]
                     @@ CompareThreshold(condition, value)
    /\ UNCHANGED <<config, engine, analysis, result, trigger, tmAnalysis,
                   tmResult, policy, epAnalysis, epResult, detVars, calls>>

NextThreshold == CompareThresholdCall

SpecThreshold == Init /\ [][NextThreshold]_vars

\* value op threshold, '=' meaning the same as '=='
Relation(operator, value, threshold) ==
    CASE operator = <<">">> -> value.n * threshold.d > threshold.n * value.d
      [] operator = <<">", "=">> ->
             value.n * threshold.d >= threshold.n * value.d
      [] operator = <<"<">> -> value.n * threshold.d < threshold.n * value.d
      [] operator = <<"<", "=">> ->
             value.n * threshold.d =< threshold.n * value.d
      [] operator \in { <<"=", "=">>, <<"=">> } ->
             value.n * threshold.d = threshold.n * value.d

\* C20: for a condition made of one of the operators >, >=, <, <=, ==, =,
\* a non-negative decimal number n and an optional trailing '%',
\* _compare_threshold(condition, v) returns exactly (v op n); '=' means
\* '==' and the '%' does not change the number.
C20_CompareThresholdIsRelation ==
    cmp.called =>
        /\ ~cmp.raised
        /\ cmp.val = Relation(cmp.operator, cmp.value, cmp.threshold)

\* '> 70%' against 70 is false and '>= 70%' against 70 is true.
C20_Witness ==
    /\ cmp.called
    /\ cmp.condition = GT70PCT
    /\ cmp.value = Rat(70, 1)
    /\ ~cmp.val
    /\ CompareThreshold(GT70PCT, Rat(85, 1)).val
    /\ CompareThreshold(Str(<<"<", " ", "5", "0">>), Rat(30, 1)).val
    /\ CompareThreshold(Str(<<"=", "=", " ", "1", "0">>), Rat(10, 1)).val

(***************************************************************************)
(* Regular expressions (the subset of Python's re the pattern tables use). *)
(* A pattern is a tree; Ends gives, for a start position, the positions    *)
(* just after each way the pattern can match there, in the order the       *)
(* backtracking matcher tries them, so that the head is the match it       *)
(* reports.                                                                *)
(***************************************************************************)
Lower == {"a", "b", "c", "d", "e", "f", "g", "h", "i", "j", "k", "l", "m",
          "n", "o", "p", "q", "r", "s", "t", "u", "v", "w", "x", "y", "z"}
Upper == {"A", "B", "C", "D", "E", "F", "G", "H", "I", "J", "K", "L", "M",
          "N", "O", "P", "Q", "R", "S", "T", "U", "V", "W", "X", "Y", "Z"}
\* \w and \s on ASCII text
Word == Lower \cup Upper \cup Digits \cup {"_"}
White == {" ", "\t", "\n", "\r"}
\* The grave accent, which cannot be written inside a string here
Backtick == "grave"

\* -1 stands for "no upper limit" of a repetition
Unlimited == 0 - 1

In(cs) == [op |-> "in", cs |-> cs, neg |-> FALSE]
NotIn(cs) == [op |-> "in", cs |-> cs, neg |-> TRUE]
Lit(c) == In({c})
AnyChar == NotIn({})
Cat(subs) == [op |-> "cat", subs |-> subs]
Alt(subs) == [op |-> "alt", subs |-> subs]
Greedy(lo, hi, sub) ==
    [op |-> "rep", lo |-> lo, hi |-> hi, lazy |-> FALSE, sub |-> sub]
Lazy(lo, hi, sub) ==
    [op |-> "rep", lo |-> lo, hi |-> hi, lazy |-> TRUE, sub |-> sub]
\* the characters of a literal word, one after the other
Chars(w) == Cat([k \in 1..Len(w) |-> Lit(w[k])])

Accepts(node, c) == (c \in node.cs) # node.neg

\* i, i+1, ..., j  and  j, j-1, ..., i
Ascending(i, j) == [k \in 1..(j - i + 1) |-> i + k - 1]
Descending(i, j) == [k \in 1..(j - i + 1) |-> j - k + 1]

\* The number of characters from position i on that the class accepts, at
\* most hi of them: the distance to the first character it rejects
ClassRun(node, s, i, hi) ==
    LET stops == {j \in i..Len(s) : ~Accepts(node, s[j])}
        free == IF stops = {} THEN Len(s) + 1 - i
                ELSE (CHOOSE j \in stops : \A k \in stops : j <= k) - i
    IN  IF hi # Unlimited /\ free > hi THEN hi ELSE free

RECURSIVE Ends(_, _, _)
RECURSIVE CatEnds(_, _, _, _)
RECURSIVE CatFrom(_, _, _, _, _, _)
RECURSIVE AltEnds(_, _, _, _)
RECURSIVE RepEnds(_, _, _, _)
RECURSIVE RepNext(_, _, _, _)
RECURSIVE RepFrom(_, _, _, _, _, _)

Ends(node, s, i) ==
    IF node.op = "in"
    THEN IF i <= Len(s) /\ Accepts(node, s[i]) THEN <<i + 1>> ELSE <<>>
    ELSE IF node.op = "cat" THEN CatEnds(node.subs, 1, s, i)
    ELSE IF node.op = "alt" THEN AltEnds(node.subs, 1, s, i)
    ELSE IF node.sub.op = "in"
    THEN CHOOSE out \in
             { IF run < node.lo THEN <<>>
               ELSE IF node.lazy THEN Ascending(i + node.lo, i + run)
               ELSE Descending(i + node.lo, i + run) :
                   run \in {ClassRun(node.sub, s, i, node.hi)} } : TRUE
    ELSE RepEnds(node, s, i, 0)

\* subs[k], subs[k+1], ... one after the other from position i
CatEnds(subs, k, s, i) ==
    IF k > Len(subs) THEN <<i>>
    ELSE CHOOSE out \in
             { CatFrom(js, 1, Len(js), subs, k + 1, s) :
                   js \in {Ends(subs[k], s, i)} } : TRUE

\* subs[k], ... from each of the positions js[lo], ..., js[hi] in turn
CatFrom(js, lo, hi, subs, k, s) ==
    IF lo > hi THEN <<>>
    ELSE IF lo = hi THEN CatEnds(subs, k, s, js[lo])
    ELSE CatFrom(js, lo, (lo + hi) \div 2, subs, k, s) \o
         CatFrom(js, (lo + hi) \div 2 + 1, hi, subs, k, s)

\* subs[k] | subs[k+1] | ...
AltEnds(subs, k, s, i) ==
    IF k > Len(subs) THEN <<>>
    ELSE Ends(subs[k], s, i) \o AltEnds(subs, k + 1, s, i)

\* An iteration that matches the empty string ends the repetition.
Advancing(js, i) == LET Further(j) == j > i IN SelectSeq(js, Further)

\* A repetition that has matched `count` times and stands at position i
RepEnds(node, s, i, count) ==
    CHOOSE out \in
        { IF node.lazy THEN stop \o more ELSE more \o stop :
            stop \in {IF count >= node.lo THEN <<i>> ELSE <<>>},
            more \in {IF node.hi # Unlimited /\ count >= node.hi THEN <<>>
                      ELSE RepNext(node, s, i, count)} } : TRUE

\* One more iteration of the repetition from position i
RepNext(node, s, i, count) ==
    CHOOSE out \in
        { RepFrom(js, 1, Len(js), node, s, count + 1) :
            js \in {Advancing(Ends(node.sub, s, i), i)} } : TRUE

\* The repetition goes on from each of js[lo], ..., js[hi] in turn
RepFrom(js, lo, hi, node, s, count) ==
    IF lo > hi THEN <<>>
    ELSE IF lo = hi THEN RepEnds(node, s, js[lo], count)
    ELSE RepFrom(js, lo, (lo + hi) \div 2, node, s, count) \o
         RepFrom(js, (lo + hi) \div 2 + 1, hi, node, s, count)

\* For every start position, the end of the match the matcher reports
\* there, or 0 when the pattern does not match at that position
FirstEnds(node, s) ==
    [i \in 1..(Len(s) + 1) |->
        CHOOSE e \in { IF ends = <<>> THEN 0 ELSE Head(ends) :
                           ends \in {Ends(node, s, i)} } : TRUE]

\* The leftmost match at or after position `from`, then the search goes on
\* where that match ended (one further when the match is empty).
RECURSIVE Scan(_, _)
Scan(firstEnds, from) ==
    LET starts == {i \in from..Len(firstEnds) : firstEnds[i] # 0}
    IN  IF starts = {} THEN <<>>
        ELSE LET start == CHOOSE i \in starts : \A k \in starts : i <= k
                 end == firstEnds[start]
             IN  <<[start |-> start, end |-> end]>> \o
                 Scan(firstEnds, IF end > start THEN end ELSE start + 1)

\* re.finditer(pattern, s): the matches [start, end) from left to right
FindIter(node, s) ==
    CHOOSE out \in {Scan(fe, 1) : fe \in {FirstEnds(node, s)}} : TRUE

(***************************************************************************)
(* The pattern tables of the detector.                                     *)
(***************************************************************************)
\* StylometryAnalyzer.boilerplate_patterns (matched without flags)
boilerplate_patterns ==
    <<
      \* try\s*\{[\s\S]*?catch
      Cat(<<
          Chars(<<"t", "r", "y">>),
          Greedy(0, Unlimited, In(White)),
          Lit("{"),
          Lazy(0, Unlimited, AnyChar),
          Chars(<<"c", "a", "t", "c", "h">>) >>),
      \* if\s*\(\s*!\s*\w+\s*\)\s*\{?\s*return
      Cat(<<
          Chars(<<"i", "f">>),
          Greedy(0, Unlimited, In(White)),
          Lit("("),
          Greedy(0, Unlimited, In(White)),
          Lit("!"),
          Greedy(0, Unlimited, In(White)),
          Greedy(1, Unlimited, In(Word)),
          Greedy(0, Unlimited, In(White)),
          Lit(")"),
          Greedy(0, Unlimited, In(White)),
          Greedy(0, 1, Lit("{")),
          Greedy(0, Unlimited, In(White)),
          Chars(<<"r", "e", "t", "u", "r", "n">>) >>),
      \* async\s+function\s+\w+\s*\([^)]*\)\s*\{
      Cat(<<
          Chars(<<"a", "s", "y", "n", "c">>),
          Greedy(1, Unlimited, In(White)),
          Chars(<<"f", "u", "n", "c", "t", "i", "o", "n">>),
          Greedy(1, Unlimited, In(White)),
          Greedy(1, Unlimited, In(Word)),
          Greedy(0, Unlimited, In(White)),
          Lit("("),
          Greedy(0, Unlimited, NotIn({")"})),
          Lit(")"),
          Greedy(0, Unlimited, In(White)),
          Lit("{") >>),
      \* const\s+\w+\s*=\s*async\s*\([^)]*\)\s*=>
      Cat(<<
          Chars(<<"c", "o", "n", "s", "t">>),
          Greedy(1, Unlimited, In(White)),
          Greedy(1, Unlimited, In(Word)),
          Greedy(0, Unlimited, In(White)),
          Lit("="),
          Greedy(0, Unlimited, In(White)),
          Chars(<<"a", "s", "y", "n", "c">>),
          Greedy(0, Unlimited, In(White)),
          Lit("("),
          Greedy(0, Unlimited, NotIn({")"})),
          Lit(")"),
          Greedy(0, Unlimited, In(White)),
          Chars(<<"=", ">">>) >>),
      \* export\s+(default\s+)?(function|class|const)
      Cat(<<
          Chars(<<"e", "x", "p", "o", "r", "t">>),
          Greedy(1, Unlimited, In(White)),
          Greedy(0, 1,
            Cat(<<
                Chars(<<"d", "e", "f", "a", "u", "l", "t">>),
                Greedy(1, Unlimited, In(White)) >>)),
          Alt(<<
              Chars(<<"f", "u", "n", "c", "t", "i", "o", "n">>),
              Chars(<<"c", "l", "a", "s", "s">>),
              Chars(<<"c", "o", "n", "s", "t">>) >>) >>),
      \* import\s+\{[^}]+\}\s+from
      Cat(<<
          Chars(<<"i", "m", "p", "o", "r", "t">>),
          Greedy(1, Unlimited, In(White)),
          Lit("{"),
          Greedy(1, Unlimited, NotIn({"}"})),
          Lit("}"),
          Greedy(1, Unlimited, In(White)),
          Chars(<<"f", "r", "o", "m">>) >>),
      \* @\w+\([^)]*\)
      Cat(<<
          Lit("@"),
          Greedy(1, Unlimited, In(Word)),
          Lit("("),
          Greedy(0, Unlimited, NotIn({")"})),
          Lit(")") >>),
      \* public\s+(static\s+)?(async\s+)?\w+\s*\(
      Cat(<<
          Chars(<<"p", "u", "b", "l", "i", "c">>),
          Greedy(1, Unlimited, In(White)),
          Greedy(0, 1,
            Cat(<<
                Chars(<<"s", "t", "a", "t", "i", "c">>),
                Greedy(1, Unlimited, In(White)) >>)),
          Greedy(0, 1,
            Cat(<<
                Chars(<<"a", "s", "y", "n", "c">>),
                Greedy(1, Unlimited, In(White)) >>)),
          Greedy(1, Unlimited, In(Word)),
          Greedy(0, Unlimited, In(White)),
          Lit("(") >>),
      \* private\s+(readonly\s+)?\w+:\s*\w+
      Cat(<<
          Chars(<<"p", "r", "i", "v", "a", "t", "e">>),
          Greedy(1, Unlimited, In(White)),
          Greedy(0, 1,
            Cat(<<
                Chars(<<"r", "e", "a", "d", "o", "n", "l", "y">>),
                Greedy(1, Unlimited, In(White)) >>)),
          Greedy(1, Unlimited, In(Word)),
          Lit(":"),
          Greedy(0, Unlimited, In(White)),
          Greedy(1, Unlimited, In(Word)) >>),
      \* interface\s+\w+\s*\{
      Cat(<<
          Chars(<<"i", "n", "t", "e", "r", "f", "a", "c", "e">>),
          Greedy(1, Unlimited, In(White)),
          Greedy(1, Unlimited, In(Word)),
          Greedy(0, Unlimited, In(White)),
          Lit("{") >>),
      \* type\s+\w+\s*=\s*\{
      Cat(<<
          Chars(<<"t", "y", "p", "e">>),
          Greedy(1, Unlimited, In(White)),
          Greedy(1, Unlimited, In(Word)),
          Greedy(0, Unlimited, In(White)),
          Lit("="),
          Greedy(0, Unlimited, In(White)),
          Lit("{") >>) >>

\* PatternDetector._build_patterns(): (name, regex, confidence_weight); the
\* regexes are matched with re.MULTILINE | re.DOTALL.
BuildPatterns ==
    <<
      \* try\s*\{[^}]+\}\s*catch\s*\(\s*(?:error|err|e)\s*(?::\s*\w+)?\s*\)\s*\{[^}]*(?:console\.(?:error|log)|throw)[^}]*\}
      [name |-> "copilot_try_catch", weight |-> Rat(15, 100),
       regex |->
         Cat(<<
             Chars(<<"t", "r", "y">>),
             Greedy(0, Unlimited, In(White)),
             Lit("{"),
             Greedy(1, Unlimited, NotIn({"}"})),
             Lit("}"),
             Greedy(0, Unlimited, In(White)),
             Chars(<<"c", "a", "t", "c", "h">>),
             Greedy(0, Unlimited, In(White)),
             Lit("("),
             Greedy(0, Unlimited, In(White)),
             Lit("e"),
             Alt(<<
                 Chars(<<"r", "r", "o", "r">>),
                 Chars(<<"r", "r">>),
                 Cat(<<>>) >>),
             Greedy(0, Unlimited, In(White)),
             Greedy(0, 1,
               Cat(<<
                   Lit(":"),
                   Greedy(0, Unlimited, In(White)),
                   Greedy(1, Unlimited, In(Word)) >>)),
             Greedy(0, Unlimited, In(White)),
             Lit(")"),
             Greedy(0, Unlimited, In(White)),
             Lit("{"),
             Greedy(0, Unlimited, NotIn({"}"})),
             Alt(<<
                 Cat(<<
                     Chars(<<"c", "o", "n", "s", "o", "l", "e", ".">>),
                     Alt(<<
                         Chars(<<"e", "r", "r", "o", "r">>),
                         Chars(<<"l", "o", "g">>) >>) >>),
                 Chars(<<"t", "h", "r", "o", "w">>) >>),
             Greedy(0, Unlimited, NotIn({"}"})),
             Lit("}") >>)],
      \* throw\s+new\s+Error\s*\(\s*['\"(grave)](?:Failed to|Unable to|Error|Invalid|Cannot)[^'\"(grave)]+['\"(grave)]\s*\)
      [name |-> "standard_error_throw", weight |-> Rat(12, 100),
       regex |->
         Cat(<<
             Chars(<<"t", "h", "r", "o", "w">>),
             Greedy(1, Unlimited, In(White)),
             Chars(<<"n", "e", "w">>),
             Greedy(1, Unlimited, In(White)),
             Chars(<<"E", "r", "r", "o", "r">>),
             Greedy(0, Unlimited, In(White)),
             Lit("("),
             Greedy(0, Unlimited, In(White)),
             In({"'", "\"", Backtick}),
             Alt(<<
                 Chars(<<"F", "a", "i", "l", "e", "d", " ", "t", "o">>),
                 Chars(<<"U", "n", "a", "b", "l", "e", " ", "t", "o">>),
                 Chars(<<"E", "r", "r", "o", "r">>),
                 Chars(<<"I", "n", "v", "a", "l", "i", "d">>),
                 Chars(<<"C", "a", "n", "n", "o", "t">>) >>),
             Greedy(1, Unlimited, NotIn({"'", "\"", Backtick})),
             In({"'", "\"", Backtick}),
             Greedy(0, Unlimited, In(White)),
             Lit(")") >>)],
      \* async\s+(?:function\s+)?\w+\s*\([^)]*\)\s*(?::\s*Promise<[^>]+>)?\s*\{[^}]*await\s+fetch
      [name |-> "async_await_fetch", weight |-> Rat(10, 100),
       regex |->
         Cat(<<
             Chars(<<"a", "s", "y", "n", "c">>),
             Greedy(1, Unlimited, In(White)),
             Greedy(0, 1,
               Cat(<<
                   Chars(<<"f", "u", "n", "c", "t", "i", "o", "n">>),
                   Greedy(1, Unlimited, In(White)) >>)),
             Greedy(1, Unlimited, In(Word)),
             Greedy(0, Unlimited, In(White)),
             Lit("("),
             Greedy(0, Unlimited, NotIn({")"})),
             Lit(")"),
             Greedy(0, Unlimited, In(White)),
             Greedy(0, 1,
               Cat(<<
                   Lit(":"),
                   Greedy(0, Unlimited, In(White)),
                   Chars(<<"P", "r", "o", "m", "i", "s", "e", "<">>),
                   Greedy(1, Unlimited, NotIn({">"})),
                   Lit(">") >>)),
             Greedy(0, Unlimited, In(White)),
             Lit("{"),
             Greedy(0, Unlimited, NotIn({"}"})),
             Chars(<<"a", "w", "a", "i", "t">>),
             Greedy(1, Unlimited, In(White)),
             Chars(<<"f", "e", "t", "c", "h">>) >>)],
      \* \.then\s*\(\s*(?:\([^)]*\)|[a-z]+)\s*=>\s*\{?[^}]*\}\s*\)\s*\.catch
      [name |-> "promise_chain", weight |-> Rat(8, 100),
       regex |->
         Cat(<<
             Chars(<<".", "t", "h", "e", "n">>),
             Greedy(0, Unlimited, In(White)),
             Lit("("),
             Greedy(0, Unlimited, In(White)),
             Alt(<<
                 Cat(<<
                     Lit("("),
                     Greedy(0, Unlimited, NotIn({")"})),
                     Lit(")") >>),
                 Greedy(1, Unlimited, In(Lower)) >>),
             Greedy(0, Unlimited, In(White)),
             Chars(<<"=", ">">>),
             Greedy(0, Unlimited, In(White)),
             Greedy(0, 1, Lit("{")),
             Greedy(0, Unlimited, NotIn({"}"})),
             Lit("}"),
             Greedy(0, Unlimited, In(White)),
             Lit(")"),
             Greedy(0, Unlimited, In(White)),
             Chars(<<".", "c", "a", "t", "c", "h">>) >>)],
      \* /\*\*\s*\n(?:\s*\*\s*@\w+[^\n]*\n)+\s*\*/
      [name |-> "jsdoc_complete", weight |-> Rat(10, 100),
       regex |->
         Cat(<<
             Chars(<<"/", "*", "*">>),
             Greedy(0, Unlimited, In(White)),
             Lit("\n"),
             Greedy(1, Unlimited,
               Cat(<<
                   Greedy(0, Unlimited, In(White)),
                   Lit("*"),
                   Greedy(0, Unlimited, In(White)),
                   Lit("@"),
                   Greedy(1, Unlimited, In(Word)),
                   Greedy(0, Unlimited, NotIn({"\n"})),
                   Lit("\n") >>)),
             Greedy(0, Unlimited, In(White)),
             Chars(<<"*", "/">>) >>)],
      \* //\s*[A-Z][a-z]+(?:\s+[a-z]+){3,}
      [name |-> "inline_explanation", weight |-> Rat(8, 100),
       regex |->
         Cat(<<
             Chars(<<"/", "/">>),
             Greedy(0, Unlimited, In(White)),
             In(Upper),
             Greedy(1, Unlimited, In(Lower)),
             Greedy(3, Unlimited,
               Cat(<<
                   Greedy(1, Unlimited, In(White)),
                   Greedy(1, Unlimited, In(Lower)) >>)) >>)],
      \* const\s+[a-z]+(?:[A-Z][a-z]+){2,}\s*=
      [name |-> "descriptive_const", weight |-> Rat(6, 100),
       regex |->
         Cat(<<
             Chars(<<"c", "o", "n", "s", "t">>),
             Greedy(1, Unlimited, In(White)),
             Greedy(1, Unlimited, In(Lower)),
             Greedy(2, Unlimited,
               Cat(<<In(Upper), Greedy(1, Unlimited, In(Lower))>>)),
             Greedy(0, Unlimited, In(White)),
             Lit("=") >>)],
      \* (?:const|let)\s+(?:response|data|result)\s*=\s*await
      [name |-> "response_data_pattern", weight |-> Rat(8, 100),
       regex |->
         Cat(<<
             Alt(<<
                 Chars(<<"c", "o", "n", "s", "t">>),
                 Chars(<<"l", "e", "t">>) >>),
             Greedy(1, Unlimited, In(White)),
             Alt(<<
                 Chars(<<"r", "e", "s", "p", "o", "n", "s", "e">>),
                 Chars(<<"d", "a", "t", "a">>),
                 Chars(<<"r", "e", "s", "u", "l", "t">>) >>),
             Greedy(0, Unlimited, In(White)),
             Lit("="),
             Greedy(0, Unlimited, In(White)),
             Chars(<<"a", "w", "a", "i", "t">>) >>)],
      \* const\s+\w+\s*=\s*(?:async\s*)?\([^)]*:\s*\w+[^)]*\)\s*(?::\s*\w+(?:<[^>]+>)?)?\s*=>
      [name |-> "arrow_with_types", weight |-> Rat(10, 100),
       regex |->
         Cat(<<
             Chars(<<"c", "o", "n", "s", "t">>),
             Greedy(1, Unlimited, In(White)),
             Greedy(1, Unlimited, In(Word)),
             Greedy(0, Unlimited, In(White)),
             Lit("="),
             Greedy(0, Unlimited, In(White)),
             Greedy(0, 1,
               Cat(<<
                   Chars(<<"a", "s", "y", "n", "c">>),
                   Greedy(0, Unlimited, In(White)) >>)),
             Lit("("),
             Greedy(0, Unlimited, NotIn({")"})),
             Lit(":"),
             Greedy(0, Unlimited, In(White)),
             Greedy(1, Unlimited, In(Word)),
             Greedy(0, Unlimited, NotIn({")"})),
             Lit(")"),
             Greedy(0, Unlimited, In(White)),
             Greedy(0, 1,
               Cat(<<
                   Lit(":"),
                   Greedy(0, Unlimited, In(White)),
                   Greedy(1, Unlimited, In(Word)),
                   Greedy(0, 1,
                     Cat(<<
                         Lit("<"),
                         Greedy(1, Unlimited, NotIn({">"})),
                         Lit(">") >>)) >>)),
             Greedy(0, Unlimited, In(White)),
             Chars(<<"=", ">">>) >>)],
      \* export\s+default\s+(?:async\s+)?function\s+\w+
      [name |-> "export_default_function", weight |-> Rat(6, 100),
       regex |->
         Cat(<<
             Chars(<<"e", "x", "p", "o", "r", "t">>),
             Greedy(1, Unlimited, In(White)),
             Chars(<<"d", "e", "f", "a", "u", "l", "t">>),
             Greedy(1, Unlimited, In(White)),
             Greedy(0, 1,
               Cat(<<
                   Chars(<<"a", "s", "y", "n", "c">>),
                   Greedy(1, Unlimited, In(White)) >>)),
             Chars(<<"f", "u", "n", "c", "t", "i", "o", "n">>),
             Greedy(1, Unlimited, In(White)),
             Greedy(1, Unlimited, In(Word)) >>)],
      \* useEffect\s*\(\s*\(\s*\)\s*=>\s*\{[^}]+\}\s*,\s*\[[^\]]*\]\s*\)
      [name |-> "use_effect_deps", weight |-> Rat(8, 100),
       regex |->
         Cat(<<
             Chars(<<"u", "s", "e", "E", "f", "f", "e", "c", "t">>),
             Greedy(0, Unlimited, In(White)),
             Lit("("),
             Greedy(0, Unlimited, In(White)),
             Lit("("),
             Greedy(0, Unlimited, In(White)),
             Lit(")"),
             Greedy(0, Unlimited, In(White)),
             Chars(<<"=", ">">>),
             Greedy(0, Unlimited, In(White)),
             Lit("{"),
             Greedy(1, Unlimited, NotIn({"}"})),
             Lit("}"),
             Greedy(0, Unlimited, In(White)),
             Lit(","),
             Greedy(0, Unlimited, In(White)),
             Lit("["),
             Greedy(0, Unlimited, NotIn({"]"})),
             Lit("]"),
             Greedy(0, Unlimited, In(White)),
             Lit(")") >>)],
      \* const\s*\[\s*\w+\s*,\s*set[A-Z]\w+\s*\]\s*=\s*useState
      [name |-> "use_state_destructure", weight |-> Rat(8, 100),
       regex |->
         Cat(<<
             Chars(<<"c", "o", "n", "s", "t">>),
             Greedy(0, Unlimited, In(White)),
             Lit("["),
             Greedy(0, Unlimited, In(White)),
             Greedy(1, Unlimited, In(Word)),
             Greedy(0, Unlimited, In(White)),
             Lit(","),
             Greedy(0, Unlimited, In(White)),
             Chars(<<"s", "e", "t">>),
             In(Upper),
             Greedy(1, Unlimited, In(Word)),
             Greedy(0, Unlimited, In(White)),
             Lit("]"),
             Greedy(0, Unlimited, In(White)),
             Lit("="),
             Greedy(0, Unlimited, In(White)),
             Chars(<<"u", "s", "e", "S", "t", "a", "t", "e">>) >>)],
      \* import\s*\{[^}]{20,}\}\s*from\s*['\"][^'\"]+['\"]
      [name |-> "grouped_imports", weight |-> Rat(5, 100),
       regex |->
         Cat(<<
             Chars(<<"i", "m", "p", "o", "r", "t">>),
             Greedy(0, Unlimited, In(White)),
             Lit("{"),
             Greedy(20, Unlimited, NotIn({"}"})),
             Lit("}"),
             Greedy(0, Unlimited, In(White)),
             Chars(<<"f", "r", "o", "m">>),
             Greedy(0, Unlimited, In(White)),
             In({"'", "\""}),
             Greedy(1, Unlimited, NotIn({"'", "\""})),
             In({"'", "\""}) >>)],
      \* interface\s+\w+\s*\{(?:\s*\w+\s*:\s*\w+(?:<[^>]+>)?;?\s*){3,}\}
      [name |-> "interface_complete", weight |-> Rat(8, 100),
       regex |->
         Cat(<<
             Chars(<<"i", "n", "t", "e", "r", "f", "a", "c", "e">>),
             Greedy(1, Unlimited, In(White)),
             Greedy(1, Unlimited, In(Word)),
             Greedy(0, Unlimited, In(White)),
             Lit("{"),
             Greedy(3, Unlimited,
               Cat(<<
                   Greedy(0, Unlimited, In(White)),
                   Greedy(1, Unlimited, In(Word)),
                   Greedy(0, Unlimited, In(White)),
                   Lit(":"),
                   Greedy(0, Unlimited, In(White)),
                   Greedy(1, Unlimited, In(Word)),
                   Greedy(0, 1,
                     Cat(<<
                         Lit("<"),
                         Greedy(1, Unlimited, NotIn({">"})),
                         Lit(">") >>)),
                   Greedy(0, 1, Lit(";")),
                   Greedy(0, Unlimited, In(White)) >>)),
             Lit("}") >>)],
      \* type\s+\w+\s*=\s*\{(?:\s*\w+\s*:\s*\w+(?:<[^>]+>)?;?\s*){2,}\}
      [name |-> "type_alias", weight |-> Rat(6, 100),
       regex |->
         Cat(<<
             Chars(<<"t", "y", "p", "e">>),
             Greedy(1, Unlimited, In(White)),
             Greedy(1, Unlimited, In(Word)),
             Greedy(0, Unlimited, In(White)),
             Lit("="),
             Greedy(0, Unlimited, In(White)),
             Lit("{"),
             Greedy(2, Unlimited,
               Cat(<<
                   Greedy(0, Unlimited, In(White)),
                   Greedy(1, Unlimited, In(Word)),
                   Greedy(0, Unlimited, In(White)),
                   Lit(":"),
                   Greedy(0, Unlimited, In(White)),
                   Greedy(1, Unlimited, In(Word)),
                   Greedy(0, 1,
                     Cat(<<
                         Lit("<"),
                         Greedy(1, Unlimited, NotIn({">"})),
                         Lit(">") >>)),
                   Greedy(0, 1, Lit(";")),
                   Greedy(0, Unlimited, In(White)) >>)),
             Lit("}") >>)],
      \* """[^"]+(?:Args:|Returns:|Raises:)[^"]+"""
      [name |-> "python_docstring", weight |-> Rat(10, 100),
       regex |->
         Cat(<<
             Chars(<<"\"", "\"", "\"">>),
             Greedy(1, Unlimited, NotIn({"\""})),
             Alt(<<
                 Chars(<<"A", "r", "g", "s", ":">>),
                 Chars(<<"R", "e", "t", "u", "r", "n", "s", ":">>),
                 Chars(<<"R", "a", "i", "s", "e", "s", ":">>) >>),
             Greedy(1, Unlimited, NotIn({"\""})),
             Chars(<<"\"", "\"", "\"">>) >>)],
      \* def\s+\w+\s*\([^)]*:\s*\w+[^)]*\)\s*->\s*\w+:
      [name |-> "python_type_hints", weight |-> Rat(8, 100),
       regex |->
         Cat(<<
             Chars(<<"d", "e", "f">>),
             Greedy(1, Unlimited, In(White)),
             Greedy(1, Unlimited, In(Word)),
             Greedy(0, Unlimited, In(White)),
             Lit("("),
             Greedy(0, Unlimited, NotIn({")"})),
             Lit(":"),
             Greedy(0, Unlimited, In(White)),
             Greedy(1, Unlimited, In(Word)),
             Greedy(0, Unlimited, NotIn({")"})),
             Lit(")"),
             Greedy(0, Unlimited, In(White)),
             Chars(<<"-", ">">>),
             Greedy(0, Unlimited, In(White)),
             Greedy(1, Unlimited, In(Word)),
             Lit(":") >>)],
      \* try:\s*\n[^e]+except\s+\w+(?:\s+as\s+\w+)?:\s*\n
      [name |-> "python_try_except", weight |-> Rat(10, 100),
       regex |->
         Cat(<<
             Chars(<<"t", "r", "y", ":">>),
             Greedy(0, Unlimited, In(White)),
             Lit("\n"),
             Greedy(1, Unlimited, NotIn({"e"})),
             Chars(<<"e", "x", "c", "e", "p", "t">>),
             Greedy(1, Unlimited, In(White)),
             Greedy(1, Unlimited, In(Word)),
             Greedy(0, 1,
               Cat(<<
                   Greedy(1, Unlimited, In(White)),
                   Chars(<<"a", "s">>),
                   Greedy(1, Unlimited, In(White)),
                   Greedy(1, Unlimited, In(Word)) >>)),
             Lit(":"),
             Greedy(0, Unlimited, In(White)),
             Lit("\n") >>)],
      \* if\s+err\s*!=\s*nil\s*\{[^}]*return[^}]*\}
      [name |-> "go_error_check", weight |-> Rat(12, 100),
       regex |->
         Cat(<<
             Chars(<<"i", "f">>),
             Greedy(1, Unlimited, In(White)),
             Chars(<<"e", "r", "r">>),
             Greedy(0, Unlimited, In(White)),
             Chars(<<"!", "=">>),
             Greedy(0, Unlimited, In(White)),
             Chars(<<"n", "i", "l">>),
             Greedy(0, Unlimited, In(White)),
             Lit("{"),
             Greedy(0, Unlimited, NotIn({"}"})),
             Chars(<<"r", "e", "t", "u", "r", "n">>),
             Greedy(0, Unlimited, NotIn({"}"})),
             Lit("}") >>)],
      \* defer\s+(?:\w+\.)?(?:Close|Unlock|Done)\s*\(\s*\)
      [name |-> "go_defer", weight |-> Rat(8, 100),
       regex |->
         Cat(<<
             Chars(<<"d", "e", "f", "e", "r">>),
             Greedy(1, Unlimited, In(White)),
             Greedy(0, 1, Cat(<<Greedy(1, Unlimited, In(Word)), Lit(".")>>)),
             Alt(<<
                 Chars(<<"C", "l", "o", "s", "e">>),
                 Chars(<<"U", "n", "l", "o", "c", "k">>),
                 Chars(<<"D", "o", "n", "e">>) >>),
             Greedy(0, Unlimited, In(White)),
             Lit("("),
             Greedy(0, Unlimited, In(White)),
             Lit(")") >>)],
      \* //\s*(?:Step\s+)?\d+[.:]\s*[A-Z]
      [name |-> "numbered_steps", weight |-> Rat(6, 100),
       regex |->
         Cat(<<
             Chars(<<"/", "/">>),
             Greedy(0, Unlimited, In(White)),
             Greedy(0, 1,
               Cat(<<
                   Chars(<<"S", "t", "e", "p">>),
                   Greedy(1, Unlimited, In(White)) >>)),
             Greedy(1, Unlimited, In(Digits)),
             In({".", ":"}),
             Greedy(0, Unlimited, In(White)),
             In(Upper) >>)],
      \* //\s*TODO:\s*[A-Z][a-z]+\s+[a-z]+
      [name |-> "todo_ai_style", weight |-> Rat(5, 100),
       regex |->
         Cat(<<
             Chars(<<"/", "/">>),
             Greedy(0, Unlimited, In(White)),
             Chars(<<"T", "O", "D", "O", ":">>),
             Greedy(0, Unlimited, In(White)),
             In(Upper),
             Greedy(1, Unlimited, In(Lower)),
             Greedy(1, Unlimited, In(White)),
             Greedy(1, Unlimited, In(Lower)) >>)] >>

(***************************************************************************)
(* Feature extractor (src/detection/stylometry.py).                        *)
(***************************************************************************)
\* code.split('\n')
RECURSIVE SplitFrom(_, _)
SplitFrom(code, from) ==
    LET n == ClassRun(NotIn({"\n"}), code, from, Unlimited)
        line == SubSeq(code, from, from + n - 1)
    IN  IF from + n > Len(code) THEN <<line>>
        ELSE <<line>> \o SplitFrom(code, from + n + 1)

SplitLines(code) == SplitFrom(code, 1)

\* `if l.strip()`: the line has a character that is not whitespace
NonBlank(l) == \E k \in 1..Len(l) : l[k] \notin White

\* l.strip()
RECURSIVE StripWhite(_)
StripWhite(l) ==
    IF l # <<>> /\ Head(l) \in White THEN StripWhite(Tail(l))
    ELSE IF l # <<>> /\ l[Len(l)] \in White
    THEN StripWhite(SubSeq(l, 1, Len(l) - 1))
    ELSE l

RECURSIVE SumSeq(_)
SumSeq(q) == IF q = <<>> THEN 0 ELSE Head(q) + SumSeq(Tail(q))

\* re.findall(r'\b([a-z][a-zA-Z0-9_]*)\b', code): a lower-case letter that
\* does not follow a word character, with the word characters after it
Identifiers(code) ==
    LET starts == {i \in 1..Len(code) :
                      /\ code[i] \in Lower
                      /\ i = 1 \/ code[i - 1] \notin Word}
        Found(i) == SubSeq(code, i,
                           i + ClassRun(In(Word), code, i, Unlimited) - 1)
    IN  {<<i, Found(i)>> : i \in starts}

\* re.match(r'^[a-z]+([A-Z][a-z]*)*$', i): some way of matching from the
\* first character ends at the end of the identifier
CamelCaseRegex ==
    Cat(<<Greedy(1, Unlimited, In(Lower)),
          Greedy(0, Unlimited,
                 Cat(<<In(Upper), Greedy(0, Unlimited, In(Lower))>>))>>)

IsCamelCase(id) ==
    \E ends \in {Ends(CamelCaseRegex, id, 1)} :
        \E k \in 1..Len(ends) : ends[k] = Len(id) + 1

\* '_' in i and i.islower()
IsSnakeCase(id) ==
    /\ \E k \in 1..Len(id) : id[k] = "_"
    /\ \E k \in 1..Len(id) : id[k] \in Lower
    /\ \A k \in 1..Len(id) : id[k] \notin Upper

\* _analyze_naming(code)
AnalyzeNaming(code) ==
    LET identifiers == Identifiers(code)
        total == Cardinality(identifiers)
        camel_case == Cardinality({x \in identifiers : IsCamelCase(x[2])})
        snake_case == Cardinality({x \in identifiers : IsSnakeCase(x[2])})
    IN  IF total < 5 THEN Rat(1, 2)
        ELSE Norm(IF camel_case > snake_case THEN camel_case
                  ELSE snake_case, total)

\* comment_markers.get(language, comment_markers['auto'])
CommentMarkers(language) ==
    IF language = "python" THEN {<<"#">>}
    ELSE IF language \in {"javascript", "typescript", "go", "java"}
    THEN {<<"/", "/">>, <<"/", "*">>}
    ELSE {<<"/", "/">>, <<"#">>, <<"/", "*">>}

IsCommentLine(l, markers) ==
    \E m \in markers : StartsWith(StripWhite(l), 1, m)

\* max(len(lines), 1)
AtLeastOne(k) == IF k < 1 THEN 1 ELSE k

\* _analyze_comments(lines, language)
AnalyzeComments(lines, language) ==
    LET markers == CommentMarkers(language)
        comment_lines == Cardinality({k \in 1..Len(lines) :
                                         IsCommentLine(lines[k], markers)})
    IN  Norm(comment_lines, AtLeastOne(Len(lines)))

\* [len(l) for l in lines if l.strip()]
Lengths(lines) ==
    LET kept == SelectSeq(lines, NonBlank)
    IN  [k \in 1..Len(kept) |-> Len(kept[k])]

\* _avg_line_length(lines)
AvgLineLength(lines) ==
    LET lengths == Lengths(lines)
    IN  IF lengths = <<>> THEN Rat(0, 1)
        ELSE Norm(SumSeq(lengths), Len(lengths))

\* The largest k with k * k <= x, for 0 <= lo * lo <= x < hi * hi
RECURSIVE RootBetween(_, _, _)
RootBetween(x, lo, hi) ==
    IF hi - lo <= 1 THEN lo
    ELSE LET mid == (lo + hi) \div 2
         IN  IF mid * mid <= x THEN RootBetween(x, mid, hi)
             ELSE RootBetween(x, lo, mid)

\* The square root of a non-negative fraction, cut off after two decimals
\* (exact when the root has at most two decimals)
Sqrt(x) == Norm(RootBetween((x.n * 10000) \div x.d, 0, 40000), 100)

\* _line_length_variance(lines): statistics.stdev, the square root of the
\* sample variance
LineLengthVariance(lines) ==
    LET lengths == Lengths(lines)
        n == Len(lengths)
        squares == [k \in 1..n |-> lengths[k] * lengths[k]]
    IN  IF n < 2 THEN Rat(0, 1)
        ELSE Sqrt(Norm(n * SumSeq(squares) - SumSeq(lengths) * SumSeq(lengths),
                       n * (n - 1)))

\* The mutant has no special case for a text without non-blank lines.
AnalyzeIndentationUnguarded(lines) ==
    LET kept == SelectSeq(lines, NonBlank)
        indents == [k \in 1..Len(kept) |->
                       ClassRun(In(White), kept[k], 1, Unlimited)]
        indent_unit == IF \E k \in 1..Len(indents) :
                              indents[k] % 2 = 0 /\ indents[k] % 4 # 0
                       THEN 2 ELSE 4
        consistent == Cardinality({k \in 1..Len(indents) :
                                      indents[k] % indent_unit = 0})
    IN  Norm(consistent, Len(indents))

\* _analyze_indentation(lines)
AnalyzeIndentation(lines) ==
    LET kept == SelectSeq(lines, NonBlank)
        indents == [k \in 1..Len(kept) |->
                       ClassRun(In(White), kept[k], 1, Unlimited)]
        indent_unit == IF \E k \in 1..Len(indents) :
                              indents[k] % 2 = 0 /\ indents[k] % 4 # 0
                       THEN 2 ELSE 4
        consistent == Cardinality({k \in 1..Len(indents) :
                                      indents[k] % indent_unit = 0})
    IN  IF indents = <<>> THEN Rat(1, 2)
        ELSE Norm(consistent, Len(indents))

\* sum(len(re.findall(p, code)) for p in self.boilerplate_patterns)
BoilerplateMatches(code) ==
    SumSeq([k \in 1..Len(boilerplate_patterns) |->
               Len(FindIter(boilerplate_patterns[k], code))])

\* The mutant does not cap the ratio at 1.0.
AnalyzeBoilerplateUncapped(code) ==
    LET matches == BoilerplateMatches(code)
        lines == Len(SplitLines(code))
    IN  IF lines > 10 THEN Norm(matches * 10, lines) ELSE Rat(matches, 1)

\* _analyze_boilerplate(code): min(matches / max(lines / 10, 1), 1.0)
AnalyzeBoilerplate(code) ==
    LET matches == BoilerplateMatches(code)
        lines == Len(SplitLines(code))
    IN  RatMin(IF lines > 10 THEN Norm(matches * 10, lines)
               ELSE Rat(matches, 1),
               Rat(1, 1))

\* _empty_line_ratio(lines)
EmptyLineRatio(lines) ==
    LET empty == Cardinality({k \in 1..Len(lines) : ~NonBlank(lines[k])})
    IN  Norm(empty, AtLeastOne(Len(lines)))

\* The mutant lets the counter go below 0.
ClosedUnfloored(current_depth) == current_depth - 1

\* current_depth = max(0, current_depth - 1)
Closed(current_depth) ==
    IF current_depth - 1 < 0 THEN 0 ELSE current_depth - 1

\* The loop of _max_nesting_depth over code[k..]: the counter and the
\* maximum after the last character.  The characters before the next
\* bracket change neither of them.
RECURSIVE NestingFrom(_, _, _, _)
NestingFrom(code, k, current_depth, max_depth) ==
    LET brackets == {j \in k..Len(code) :
                        code[j] \in {"{", "[", "(", "}", "]", ")"}}
        next == CHOOSE j \in brackets : \A i \in brackets : j <= i
    IN  IF brackets = {}
        THEN [current_depth |-> current_depth, max_depth |-> max_depth]
        ELSE IF code[next] \in {"{", "[", "("}
        THEN NestingFrom(code, next + 1, current_depth + 1,
                         IF current_depth + 1 > max_depth
                         THEN current_depth + 1 ELSE max_depth)
        ELSE NestingFrom(code, next + 1, Closed(current_depth), max_depth)

\* _max_nesting_depth(code)
MaxNestingDepth(code) == NestingFrom(code, 1, 0, 0).max_depth

\* analyze(code, language): the StyleFeatures record
Analyze(code, language) ==
    CHOOSE out \in
        { [naming_consistency |-> AnalyzeNaming(code),
           comment_density |-> AnalyzeComments(lines, language),
           avg_line_length |-> AvgLineLength(non_empty_lines),
           line_length_variance |-> LineLengthVariance(non_empty_lines),
           indentation_consistency |-> AnalyzeIndentation(lines),
           boilerplate_ratio |-> AnalyzeBoilerplate(code),
           empty_line_ratio |-> EmptyLineRatio(lines),
           max_nesting_depth |-> MaxNestingDepth(code)] :
            lines \in {SplitLines(code)},
            non_empty_lines \in {SelectSeq(SplitLines(code), NonBlank)} }
        : TRUE

\* The weights of calculate_ai_probability
StyleWeights ==
    [naming_consistency |-> Rat(20, 100),
     indentation_consistency |-> Rat(20, 100),
     boilerplate_ratio |-> Rat(20, 100),
     comment_density |-> Rat(10, 100),
     line_length_variance |-> Rat(15, 100),
     empty_line_ratio |-> Rat(10, 100),
     nesting_depth |-> Rat(5, 100)]

\* 1 - abs(x - 0.15) * 5
NearFifteenPercent(x) ==
    RatSub(Rat(1, 1), RatMul(RatAbs(RatSub(x, Rat(15, 100))), Rat(5, 1)))

\* The signals of calculate_ai_probability before they are clipped
Signals(features) ==
    [naming_consistency |-> features.naming_consistency,
     indentation_consistency |-> features.indentation_consistency,
     boilerplate_ratio |-> features.boilerplate_ratio,
     comment_density |-> NearFifteenPercent(features.comment_density),
     line_length_variance |->
        RatMax(Rat(0, 1),
               RatSub(Rat(1, 1),
                      RatMul(features.line_length_variance, Rat(1, 30)))),
     empty_line_ratio |-> NearFifteenPercent(features.empty_line_ratio),
     nesting_depth |->
        RatMax(Rat(0, 1),
               RatSub(Rat(1, 1), Norm(features.max_nesting_depth, 10)))]

\* The mutant leaves the signal as it is.
ClipNot(v) == v

\* max(0, min(1, v))
Clip(v) == RatMax(Rat(0, 1), RatMin(Rat(1, 1), v))

RECURSIVE RatSum(_)
RatSum(q) == IF q = <<>> THEN Rat(0, 1) ELSE RatAdd(Head(q), RatSum(Tail(q)))

SignalOrder ==
    <<"naming_consistency", "indentation_consistency", "boilerplate_ratio",
      "comment_density", "line_length_variance", "empty_line_ratio",
      "nesting_depth">>

\* calculate_ai_probability(features)
CalculateAiProbability(features) ==
    LET signals == Signals(features)
    IN  RatSum([k \in 1..Len(SignalOrder) |->
                   RatMul(Clip(signals[SignalOrder[k]]),
                          StyleWeights[SignalOrder[k]])])

\* round(x, 3) of a non-negative number, a tie going to the even neighbour
Round3(x) ==
    LET scaled == x.n * 1000
        q == scaled \div x.d
        twice == 2 * (scaled - q * x.d)
    IN  IF twice > x.d \/ (twice = x.d /\ q % 2 = 1) THEN Norm(q + 1, 1000)
        ELSE Norm(q, 1000)

(***************************************************************************)
(* Signature matcher (src/detection/patterns.py).                          *)
(***************************************************************************)
\* A regex that re.finditer cannot compile (it raises re.error)
BadRegex == [op |-> "error"]

Compiles(regex) == regex.op # "error"

\* code[:pos].count('\n') + 1 for the 0-based position pos = upto
LineOf(code, upto) ==
    Cardinality({k \in 1..upto : code[k] = "\n"}) + 1

\* The mutant appends "..." from 100 characters on.
SnippetFromHundred(text) ==
    IF Len(text) >= 100 THEN SubSeq(text, 1, 100) \o <<".", ".", ".">>
    ELSE text

\* match.group(0)[:100], with "..." appended when the match is longer
Snippet(text) ==
    IF Len(text) > 100 THEN SubSeq(text, 1, 100) \o <<".", ".", ".">>
    ELSE text

\* The PatternMatch built in the body of the inner loop
PatternMatch(entry, code, m) ==
    [pattern_name |-> entry.name,
     confidence |-> entry.weight,
     line_start |-> LineOf(code, m.start - 1),
     line_end |-> LineOf(code, m.end - 1),
     snippet |-> Snippet(SubSeq(code, m.start, m.end - 1))]

\* The mutant looks for the first match of the pattern only.
MatchesOfFirstOnly(entry, code) ==
    LET found == FindIter(entry.regex, code)
    IN  IF found = <<>> THEN <<>>
        ELSE <<PatternMatch(entry, code, found[1])>>

\* The inner loop of detect(): one PatternMatch per match of the pattern
MatchesOf(entry, code) ==
    LET found == FindIter(entry.regex, code)
    IN  [j \in 1..Len(found) |-> PatternMatch(entry, code, found[j])]

\* The outer loop of detect() from pattern k on
RECURSIVE AllMatches(_, _, _)
AllMatches(patterns, k, code) ==
    IF k > Len(patterns) THEN <<>>
    ELSE MatchesOf(patterns[k], code) \o AllMatches(patterns, k + 1, code)

\* f"{m.line_start}-{m.line_end}"
LineSpan(m) == IntToDigits(m.line_start) \o <<"-">> \o IntToDigits(m.line_end)

\* The dictionary detect() returns for the list of matches it has built
PatternResult(matches) ==
    LET total_weight == RatSum([k \in 1..Len(matches) |->
                                   matches[k].confidence])
    IN  [raised |-> FALSE,
         pattern_score |-> Round3(RatMin(total_weight, Rat(1, 1))),
         patterns_matched |-> Len(matches),
         matches |-> [k \in 1..Len(matches) |->
                         [pattern |-> matches[k].pattern_name,
                          confidence |-> matches[k].confidence,
                          lines |-> LineSpan(matches[k]),
                          snippet |-> matches[k].snippet]],
         method |-> "pattern_matching"]

PatternRaised ==
    [raised |-> TRUE, pattern_score |-> Rat(0, 1), patterns_matched |-> 0,
     matches |-> <<>>, method |-> "pattern_matching"]

\* PatternDetector.detect(code): an exception of re.finditer is not caught
\* and ends the call.
PatternDetect(patterns, code) ==
    IF \E k \in 1..Len(patterns) : ~Compiles(patterns[k].regex)
    THEN PatternRaised
    ELSE CHOOSE out \in
             { PatternResult(matches) :
                   matches \in {AllMatches(patterns, 1, code)} } : TRUE

(***************************************************************************)
(* Score combiner (src/detection/detector.py).                             *)
(***************************************************************************)
\* self.weights
CombinerWeights ==
    [stylometry |-> Rat(45, 100), patterns |-> Rat(45, 100),
     telemetry |-> Rat(10, 100)]

\* The mutant finds every hash in the telemetry store.
CheckTelemetryFound(code_hash) == TRUE

\* _check_telemetry(code_hash): the lookup is not implemented
CheckTelemetry(code_hash) == FALSE

\* The mutant never boosts: it blends the two scores whatever the
\* corroboration says.
CombineNoBoost(weights, style_score, pattern_score, telemetry_match) ==
    LET total == RatAdd(weights.stylometry, weights.patterns)
    IN  RatMul(RatAdd(RatMul(style_score, weights.stylometry),
                      RatMul(pattern_score, weights.patterns)),
               Rat(total.d, total.n))

\* Lines 85-98 of detect()
Combine(weights, style_score, pattern_score, telemetry_match) ==
    IF telemetry_match
    THEN RatAdd(RatAdd(RatMul(style_score, Rat(30, 100)),
                       RatMul(pattern_score, Rat(30, 100))),
                RatMul(Rat(1, 1), Rat(40, 100)))
    ELSE LET total == RatAdd(weights.stylometry, weights.patterns)
         IN  RatMul(RatAdd(RatMul(style_score, weights.stylometry),
                           RatMul(pattern_score, weights.patterns)),
                    Rat(total.d, total.n))

\* The mutant takes the breakpoints as inclusive.
ConfidenceOfInclusive(combined) ==
    IF ~RatLt(combined, Rat(85, 100)) THEN "very_high"
    ELSE IF ~RatLt(combined, Rat(7, 10)) THEN "high"
    ELSE IF ~RatLt(combined, Rat(5, 10)) THEN "medium"
    ELSE IF ~RatLt(combined, Rat(3, 10)) THEN "low"
    ELSE "very_low"

\* Lines 100-110 of detect()
ConfidenceOf(combined) ==
    IF RatLt(Rat(85, 100), combined) THEN "very_high"
    ELSE IF RatLt(Rat(7, 10), combined) THEN "high"
    ELSE IF RatLt(Rat(5, 10), combined) THEN "medium"
    ELSE IF RatLt(Rat(3, 10), combined) THEN "low"
    ELSE "very_low"

\* round(x, 3) of each feature listed in details['stylometry']['features']
ReportedFeatures(features) ==
    [naming_consistency |-> Round3(features.naming_consistency),
     comment_density |-> Round3(features.comment_density),
     indentation_consistency |-> Round3(features.indentation_consistency),
     boilerplate_ratio |-> Round3(features.boilerplate_ratio)]

\* pattern_result['matches'][:5]
FirstFive(matches) ==
    IF Len(matches) > 5 THEN SubSeq(matches, 1, 5) ELSE matches

\* methods_used at the return of detect(): the two analyses always, the
\* corroboration when it matched (lines 63, 68, 73, 81-83)
MethodsUsed(telemetry_match) ==
    <<"stylometry", "pattern_matching">> \o
    (IF telemetry_match THEN <<"telemetry">> ELSE <<>>)

NoDetectionResult ==
    [ai_probability |-> Rat(0, 1), confidence |-> "",
     stylometry_score |-> Rat(0, 1), pattern_score |-> Rat(0, 1),
     methods_used |-> <<>>]

\* The DetectionResult built at the end of detect()
DetectionResult(features, style_score, pattern_result, telemetry_hash, telemetry_match, combined) ==
    [ai_probability |-> Round3(combined),
     confidence |-> ConfidenceOf(combined),
     stylometry_score |-> Round3(style_score),
     pattern_score |-> Round3(pattern_result.pattern_score),
     methods_used |-> MethodsUsed(telemetry_match),
     details |->
        [stylometry |-> [score |-> Round3(style_score),
                         features |-> ReportedFeatures(features)],
         patterns |-> [score |-> Round3(pattern_result.pattern_score),
                       patterns_matched |-> pattern_result.patterns_matched,
                       top_patterns |-> FirstFive(pattern_result.matches)],
         telemetry |-> IF Truthy(telemetry_hash)
                       THEN [present |-> TRUE, matched |-> telemetry_match,
                             hash |-> telemetry_hash]
                       ELSE [present |-> FALSE, matched |-> FALSE,
                             hash |-> NoneV]]]

\* detect(code, language, telemetry_hash), given what the analyzer and the
\* matcher returned: the values of its local variables at the return
DetectFrom(det, features, pattern_result, telemetry_hash) ==
    LET style_score == CalculateAiProbability(features)
        telemetry_match == Truthy(telemetry_hash)
                           /\ CheckTelemetry(telemetry_hash)
        combined == Combine(det.weights, style_score,
                            pattern_result.pattern_score, telemetry_match)
    IN  IF pattern_result.raised
        THEN [raised |-> TRUE, features |-> features,
              style_score |-> style_score, pattern_result |-> pattern_result,
              combined |-> Rat(0, 1), result |-> NoDetectionResult]
        ELSE [raised |-> FALSE, features |-> features,
              style_score |-> style_score, pattern_result |-> pattern_result,
              combined |-> combined,
              result |-> DetectionResult(features, style_score,
                                         pattern_result, telemetry_hash,
                                         telemetry_match, combined)]

\* CombinedDetector.detect(code, language, telemetry_hash)
Detect(det, code, language, telemetry_hash) ==
    CHOOSE out \in
        { DetectFrom(det, features, pattern_result, telemetry_hash) :
            features \in {Analyze(code, language)},
            pattern_result \in {PatternDetect(det.patterns, code)} } : TRUE

(***************************************************************************)
(* The source texts handed to the detector: the two samples of             *)
(* detector.py and short texts for the cases of the feature extractor, the *)
(* matcher and the tier mapping.                                           *)
(***************************************************************************)
\* the empty text (0 characters)
EmptyText == <<>>

\* three lines, none with a visible character (5 characters)
BlankText == <<" ", " ", "\n", "\t", "\n">>

\* one line, one identifier (1 characters)
OneWord == <<"x">>

\* eight identifiers in mixed styles, odd indentation (37 characters)
MixedNames ==
    << "f", "o", "o", "B", "a", "r", "(", "a", "_", "b", ",", " ", "c", ")",
      "\n", " ", " ", "g", "o", "(", "x", "1", ")", "\n", " ", " ", " ",
      "f", "_", "g", " ", "=", " ", "h", "T", "o", "p" >>

\* combined probability a little above 0.3 (27 characters)
RoundedDown ==
    << "#", " ", "a", "\n", "a", " ", "b", " ", "c", " ", "d", " ", "e",
      " ", "f", " ", "G", "_", "h", "\n", "a", "_", "b", "\n", "a", "_",
      "b" >>

\* combined probability 0.3 (12 characters)
OnBreakpoint ==
    << "/", "/", "1", ".", "A", "\n", "#", " ", "a", "\n", "x", "\n" >>

\* one signature found twice (31 characters)
TwoDefers ==
    << "d", "e", "f", "e", "r", " ", "C", "l", "o", "s", "e", "(", ")",
      "\n", "d", "e", "f", "e", "r", " ", "m", "u", ".", "U", "n", "l", "o",
      "c", "k", "(", ")" >>

\* two signatures found in overlapping regions (35 characters)
Overlapping ==
    << "a", "s", "y", "n", "c", " ", "f", "(", ")", "{", "c", "o", "n", "s",
      "t", " ", "d", "a", "t", "a", " ", "=", " ", "a", "w", "a", "i", "t",
      " ", "f", "e", "t", "c", "h", "\n" >>

\* one signature found 17 times: weights sum to 1.02 (101 characters)
ManySteps ==
    << "/", "/", "1", ".", "A", "\n", "/", "/", "1", ".", "A", "\n", "/",
      "/", "1", ".", "A", "\n", "/", "/", "1", ".", "A", "\n", "/", "/",
      "1", ".", "A", "\n", "/", "/", "1", ".", "A", "\n", "/", "/", "1",
      ".", "A", "\n", "/", "/", "1", ".", "A", "\n", "/", "/", "1", ".",
      "A", "\n", "/", "/", "1", ".", "A", "\n", "/", "/", "1", ".", "A",
      "\n", "/", "/", "1", ".", "A", "\n", "/", "/", "1", ".", "A", "\n",
      "/", "/", "1", ".", "A", "\n", "/", "/", "1", ".", "A", "\n", "/",
      "/", "1", ".", "A", "\n", "/", "/", "1", ".", "A" >>

\* two boilerplate matches in three lines (10 characters)
Decorators == <<"@", "a", "(", ")", "\n", "\n", "@", "b", "(", ")">>

\* brackets, closing ones first (11 characters)
Nested == <<"}", "}", "{", "[", "(", "\n", ")", "]", "}", "(", "(">>

\* sample_human of detector.py (146 characters)
SampleHuman ==
    << "\n", "/", "/", " ", "g", "e", "t", " ", "u", "s", "e", "r", " ",
      "-", " ", "q", "u", "i", "c", "k", " ", "a", "n", "d", " ", "d", "i",
      "r", "t", "y", "\n", "a", "s", "y", "n", "c", " ", "f", "u", "n", "c",
      "t", "i", "o", "n", " ", "g", "e", "t", "U", "s", "e", "r", "(", "i",
      "d", ")", " ", "{", "\n", " ", " ", "c", "o", "n", "s", "t", " ", "r",
      " ", "=", " ", "a", "w", "a", "i", "t", " ", "f", "e", "t", "c", "h",
      "(", "'", "/", "a", "p", "i", "/", "u", "/", "'", " ", "+", " ", "i",
      "d", ")", "\n", " ", " ", "i", "f", " ", "(", "!", "r", ".", "o", "k",
      ")", " ", "t", "h", "r", "o", "w", " ", "'", "n", "o", "p", "e", "'",
      "\n", " ", " ", "r", "e", "t", "u", "r", "n", " ", "r", ".", "j", "s",
      "o", "n", "(", ")", "\n", "}", "\n" >>

\* sample_ai of detector.py (409 characters)
SampleAi ==
    << "\n", "a", "s", "y", "n", "c", " ", "f", "u", "n", "c", "t", "i",
      "o", "n", " ", "f", "e", "t", "c", "h", "U", "s", "e", "r", "D", "a",
      "t", "a", "(", "u", "s", "e", "r", "I", "d", ":", " ", "s", "t", "r",
      "i", "n", "g", ")", ":", " ", "P", "r", "o", "m", "i", "s", "e", "<",
      "U", "s", "e", "r", ">", " ", "{", "\n", " ", " ", " ", " ", "t", "r",
      "y", " ", "{", "\n", " ", " ", " ", " ", " ", " ", " ", " ", "c", "o",
      "n", "s", "t", " ", "r", "e", "s", "p", "o", "n", "s", "e", " ", "=",
      " ", "a", "w", "a", "i", "t", " ", "f", "e", "t", "c", "h", "(",
      Backtick, "/", "a", "p", "i", "/", "u", "s", "e", "r", "s", "/", "$",
      "{", "u", "s", "e", "r", "I", "d", "}", Backtick, ")", ";", "\n", " ",
      " ", " ", " ", " ", " ", " ", " ", "i", "f", " ", "(", "!", "r", "e",
      "s", "p", "o", "n", "s", "e", ".", "o", "k", ")", " ", "{", "\n", " ",
      " ", " ", " ", " ", " ", " ", " ", " ", " ", " ", " ", "t", "h", "r",
      "o", "w", " ", "n", "e", "w", " ", "E", "r", "r", "o", "r", "(", "'",
      "F", "a", "i", "l", "e", "d", " ", "t", "o", " ", "f", "e", "t", "c",
      "h", " ", "u", "s", "e", "r", " ", "d", "a", "t", "a", "'", ")", ";",
      "\n", " ", " ", " ", " ", " ", " ", " ", " ", "}", "\n", " ", " ",
      " ", " ", " ", " ", " ", " ", "c", "o", "n", "s", "t", " ", "d", "a",
      "t", "a", " ", "=", " ", "a", "w", "a", "i", "t", " ", "r", "e", "s",
      "p", "o", "n", "s", "e", ".", "j", "s", "o", "n", "(", ")", ";", "\n",
      " ", " ", " ", " ", " ", " ", " ", " ", "r", "e", "t", "u", "r", "n",
      " ", "d", "a", "t", "a", " ", "a", "s", " ", "U", "s", "e", "r", ";",
      "\n", " ", " ", " ", " ", "}", " ", "c", "a", "t", "c", "h", " ", "(",
      "e", "r", "r", "o", "r", ")", " ", "{", "\n", " ", " ", " ", " ", " ",
      " ", " ", " ", "c", "o", "n", "s", "o", "l", "e", ".", "e", "r", "r",
      "o", "r", "(", "'", "E", "r", "r", "o", "r", " ", "f", "e", "t", "c",
      "h", "i", "n", "g", " ", "u", "s", "e", "r", ":", "'", ",", " ", "e",
      "r", "r", "o", "r", ")", ";", "\n", " ", " ", " ", " ", " ", " ", " ",
      " ", "t", "h", "r", "o", "w", " ", "e", "r", "r", "o", "r", ";", "\n",
      " ", " ", " ", " ", "}", "\n", "}", "\n" >>

\* one signature found over three lines, 122 characters long (124 characters)
LongImport ==
    << "x", "\n", "i", "m", "p", "o", "r", "t", " ", "{", " ", "a", "l",
      "p", "h", "a", "O", "n", "e", ",", " ", "a", "l", "p", "h", "a", "T",
      "w", "o", ",", " ", "a", "l", "p", "h", "a", "T", "h", "r", "e", "e",
      ",", "\n", " ", " ", "b", "e", "t", "a", "O", "n", "e", ",", " ", "b",
      "e", "t", "a", "T", "w", "o", ",", " ", "b", "e", "t", "a", "T", "h",
      "r", "e", "e", ",", " ", "b", "e", "t", "a", "F", "o", "u", "r", ",",
      "\n", " ", " ", "g", "a", "m", "m", "a", "O", "n", "e", ",", " ", "g",
      "a", "m", "m", "a", "T", "w", "o", ",", " ", "g", "a", "m", "m", "a",
      " ", "}", " ", "f", "r", "o", "m", " ", "'", "m", "o", "d", "'" >>

\* one signature found, exactly 100 characters long (100 characters)
HundredImport ==
    << "i", "m", "p", "o", "r", "t", " ", "{", " ", "a", "l", "p", "h", "a",
      "O", "n", "e", ",", " ", "a", "l", "p", "h", "a", "T", "w", "o", ",",
      " ", "a", "l", "p", "h", "a", "T", "h", "r", "e", "e", ",", " ", "b",
      "e", "t", "a", "O", "n", "e", ",", " ", "b", "e", "t", "a", "T", "w",
      "o", ",", " ", "b", "e", "t", "a", "T", "h", "r", "e", "e", ",", " ",
      "b", "e", "t", "a", "F", "o", "u", "r", ",", " ", "g", "a", "m", "m",
      "a", "a", "a", "a", "a", "a", "}", " ", "f", "r", "o", "m", " ", "'",
      "m", "'" >>

CodePool ==
    {EmptyText, BlankText, OneWord, MixedNames,
     RoundedDown, OnBreakpoint, TwoDefers, Overlapping,
     ManySteps, Decorators, Nested, SampleHuman,
     SampleAi, LongImport, HundredImport}

\* The languages and the telemetry hashes a caller passes
LanguagePool == {"auto", "python", "javascript", "rust"}

TelemetryPool == {NoneV, Str(<<>>), Str(<<"a", "b", "c">>)}

\* An entry of a pattern library whose regex does not compile
MalformedPattern ==
    [name |-> "unbalanced", weight |-> Rat(10, 100), regex |-> BadRegex]

\* The pattern library of a detector: the one _build_patterns() returns, or
\* that library after an entry which does not compile was appended to it
LibraryPool == {BuildPatterns, Append(BuildPatterns, MalformedPattern)}

(***************************************************************************)
(* Detection: SpecDetect constructs a detector and calls detect() on it.   *)
(***************************************************************************)
\* detector = CombinedDetector()
ConstructDetector ==
    /\ detector.status = "none"
    /\ \E library \in LibraryPool :
          detector' = [status |-> "ok", patterns |-> library,
                       weights |-> CombinerWeights]
    /\ UNCHANGED <<polVars, detection, score, calls>>

\* result = detector.detect(code, language, telemetry_hash)
DetectCall ==
    /\ detector.status = "ok"
    /\ ~detection.called
    /\ \E code \in CodePool, language \in LanguagePool,
          telemetry_hash \in TelemetryPool :
          detection' =
              CHOOSE out \in
                  { [called |-> TRUE, code |-> code, language |-> language,
                     telemetry_hash |-> telemetry_hash, out |-> d] :
                        d \in {Detect(detector, code, language,
                                      telemetry_hash)} } : TRUE
    /\ UNCHANGED <<polVars, detector, score, calls>>

NextDetect ==
    \/ ConstructDetector
    \/ DetectCall

SpecDetect == Init /\ [][NextDetect]_vars

(***************************************************************************)
(* The probability functions on their own: SpecScore hands a StyleFeatures *)
(* record to calculate_ai_probability and the result, a signature score    *)
(* and a corroboration flag to the combiner.                               *)
(***************************************************************************)
UnitPool == {Rat(0, 1), Rat(1, 2), Rat(1, 1)}
DensityPool == {Rat(0, 1), Rat(15, 100), Rat(1, 1)}
DeviationPool == {Rat(0, 1), Rat(15, 1), Rat(60, 1)}
DepthPool == {0, 5, 20}

FeaturesPool ==
    [naming_consistency : UnitPool,
     comment_density : DensityPool,
     avg_line_length : {Rat(0, 1)},
     line_length_variance : DeviationPool,
     indentation_consistency : {Rat(0, 1), Rat(1, 1)},
     boilerplate_ratio : {Rat(0, 1), Rat(1, 1)},
     empty_line_ratio : DensityPool,
     max_nesting_depth : DepthPool]

\* style_score = calculate_ai_probability(features), then lines 76-98 of
\* detect() with that score and the outcome of the corroboration lookup
ScoreCall ==
    /\ ~score.called
    /\ \E features \in FeaturesPool, pattern_score \in UnitPool,
          telemetry_match \in BOOLEAN :
          score' =
              CHOOSE out \in
                { [called |-> TRUE, features |-> features,
                   style_score |-> style_score,
                   pattern_score |-> pattern_score,
                   telemetry_match |-> telemetry_match,
                   methods_used |-> MethodsUsed(telemetry_match),
                   combined |-> Combine(CombinerWeights, style_score,
                                        pattern_score, telemetry_match)] :
                      style_score \in {CalculateAiProbability(features)} } :
                  TRUE
    /\ UNCHANGED <<polVars, detector, detection, calls>>

NextScore == ScoreCall

SpecScore == Init /\ [][NextScore]_vars

\* 0 <= x <= 1
InUnit(x) == x.d > 0 /\ 0 <= x.n /\ x.n <= x.d

\* C13: for every StyleFeatures record the feature-based probability lies in
\* [0,1], and for every such probability and every signature score in [0,1],
\* with or without a matched corroboration signal, the combined probability
\* lies in [0,1].
C13_ProbabilitiesInUnit ==
    score.called =>
        /\ InUnit(score.style_score)
        /\ InUnit(score.combined)

\* All signals are at their largest and the corroboration signal matched:
\* the combined probability is exactly 1.
C13_Witness ==
    /\ score.called
    /\ score.telemetry_match
    /\ score.style_score = Rat(1, 1)
    /\ score.pattern_score = Rat(1, 1)
    /\ score.combined = Rat(1, 1)

(***************************************************************************)
(* The confidence tier of a DetectionResult.                               *)
(***************************************************************************)
\* 0.30, 0.50, 0.70 and 0.85 in lowest terms
Breakpoints == {Norm(30, 100), Norm(50, 100), Norm(70, 100), Norm(85, 100)}

TierNames == <<"very_low", "low", "medium", "high", "very_high">>

TierRank(tier) == CHOOSE k \in 1..Len(TierNames) : TierNames[k] = tier

\* The tier of the claim's table: one rank for every breakpoint that lies
\* strictly below the probability
TierByBreakpoints(p) ==
    TierNames[1 + Cardinality({b \in Breakpoints : RatLt(b, p)})]

\* 0, 0.05, 0.10, ..., 1
ProbabilityGrid == {Norm(k, 20) : k \in 0..20}

\* A larger probability never gets a lower tier rank: the tier of the
\* current detection against the tiers the mapping gives on the grid
MonotonicAround(combined, tier) ==
    \A q \in ProbabilityGrid :
        /\ ~RatLt(q, combined) => TierRank(tier) <= TierRank(ConfidenceOf(q))
        /\ ~RatLt(combined, q) => TierRank(ConfidenceOf(q)) <= TierRank(tier)

Detected == detection.called /\ ~detection.out.raised

\* C14 (as stated): the tier follows the strict breakpoints 0.85, 0.70, 0.50
\* and 0.30, the mapping is monotonic, and the tier reported in a
\* DetectionResult is the tier of the probability reported in that result.
C14_TierOfReportedProbability ==
    Detected =>
        /\ detection.out.result.confidence =
              TierByBreakpoints(detection.out.combined)
        /\ MonotonicAround(detection.out.combined,
                           detection.out.result.confidence)
        /\ detection.out.result.confidence =
              TierByBreakpoints(detection.out.result.ai_probability)

\* C14 (amended): the tier follows the strict breakpoints, the mapping is
\* monotonic, and the tier reported in a DetectionResult is the tier of the
\* combined probability before it is rounded to three decimals; the tier of
\* the reported probability is the same or, when the reported probability is
\* exactly a breakpoint, one rank lower.
C14_TierOfCombinedProbability ==
    Detected =>
        LET reported == detection.out.result.ai_probability
            tier == detection.out.result.confidence
        IN  /\ tier = TierByBreakpoints(detection.out.combined)
            /\ MonotonicAround(detection.out.combined, tier)
            /\ reported = Round3(detection.out.combined)
            /\ \/ tier = TierByBreakpoints(reported)
               \/ /\ reported \in Breakpoints
                  /\ TierRank(TierByBreakpoints(reported)) + 1 = TierRank(tier)

\* A combined probability a little above 0.3 is reported as 0.3 with the
\* tier "low".
C14_Witness ==
    /\ Detected
    /\ RatLt(Rat(30, 100), detection.out.combined)
    /\ RatEq(detection.out.result.ai_probability, Rat(30, 100))
    /\ detection.out.result.confidence = "low"

(***************************************************************************)
(* The StyleFeatures record of a detection.                                *)
(***************************************************************************)
\* C15: for every source text, the empty one included, the ratios
\* naming_consistency, indentation_consistency, boilerplate_ratio,
\* empty_line_ratio and comment_density of the StyleFeatures record lie in
\* [0,1], and max_nesting_depth and line_length_variance are not negative.
C15_FeaturesInRange ==
    detection.called =>
        LET f == detection.out.features
        IN  /\ InUnit(f.naming_consistency)
            /\ InUnit(f.indentation_consistency)
            /\ InUnit(f.boilerplate_ratio)
            /\ InUnit(f.empty_line_ratio)
            /\ InUnit(f.comment_density)
            /\ f.max_nesting_depth >= 0
            /\ f.line_length_variance.d > 0
            /\ f.line_length_variance.n >= 0

\* A text of at most ten lines with more than one boilerplate match: the
\* ratio is held at 1.
C15_Witness ==
    /\ detection.called
    /\ Len(SplitLines(detection.code)) <= 10
    /\ BoilerplateMatches(detection.code) > 1
    /\ detection.out.features.boilerplate_ratio = Rat(1, 1)

\* The lines of the text that have a visible character
NonBlankLines(code) == SelectSeq(SplitLines(code), NonBlank)

\* C16: the feature extractor does not fail on empty or degenerate text: with
\* fewer than 5 identifiers naming_consistency is 0.5, with no non-blank line
\* indentation_consistency is 0.5 and avg_line_length is 0, with fewer than 2
\* non-blank lines line_length_variance is 0, and no ratio is the result of
\* a division by zero.
C16_DegenerateDefaults ==
    detection.called =>
        LET f == detection.out.features
            code == detection.code
        IN  /\ Cardinality(Identifiers(code)) < 5 =>
                  f.naming_consistency = Rat(1, 2)
            /\ Len(NonBlankLines(code)) = 0 =>
                  /\ f.indentation_consistency = Rat(1, 2)
                  /\ f.avg_line_length = Rat(0, 1)
            /\ Len(NonBlankLines(code)) < 2 =>
                  f.line_length_variance = Rat(0, 1)
            /\ \A name \in {"naming_consistency", "comment_density",
                            "avg_line_length", "line_length_variance",
                            "indentation_consistency", "boilerplate_ratio",
                            "empty_line_ratio"} : f[name].d > 0

\* The features of a text that has lines but no visible character
C16_Witness ==
    /\ detection.called
    /\ Len(detection.code) > 0
    /\ Len(NonBlankLines(detection.code)) = 0
    /\ detection.out.features.naming_consistency = Rat(1, 2)
    /\ detection.out.features.indentation_consistency = Rat(1, 2)
    /\ detection.out.features.avg_line_length = Rat(0, 1)
    /\ detection.out.features.line_length_variance = Rat(0, 1)

(***************************************************************************)
(* The result of the signature matcher within a detection.                 *)
(***************************************************************************)
\* How often each pattern of the library is found in the text
Found(patterns, code) ==
    [k \in 1..Len(patterns) |-> Len(FindIter(patterns[k].regex, code))]

\* The sum of the weights of all matches, every match counted
WeightOfAll(patterns, found) ==
    RatSum([k \in 1..Len(patterns) |->
               RatMul(patterns[k].weight, Rat(found[k], 1))])

\* C17: the score of the signature matcher is min(sum of the weights of all
\* matches, 1.0), every match of every pattern counted on its own; the score
\* is in [0,1], it is 0 when nothing matches, and patterns_matched is the
\* number of counted matches.
C17_ScoreIsCappedSum ==
    Detected =>
        \A found \in {Found(detector.patterns, detection.code)} :
            LET r == detection.out.pattern_result
                total == WeightOfAll(detector.patterns, found)
            IN  /\ RatEq(r.pattern_score, RatMin(total, Rat(1, 1)))
                /\ InUnit(r.pattern_score)
                /\ SumSeq(found) = 0 => r.pattern_score = Rat(0, 1)
                /\ r.patterns_matched = SumSeq(found)
                /\ Len(r.matches) = SumSeq(found)

\* One pattern is found 17 times; the weights add up to more than 1 and the
\* score is 1.
C17_Witness ==
    /\ Detected
    /\ \E k \in 1..Len(detector.patterns) :
          Found(detector.patterns, detection.code)[k] = 17
    /\ RatLt(Rat(1, 1), WeightOfAll(detector.patterns,
                                    Found(detector.patterns, detection.code)))
    /\ detection.out.pattern_result.patterns_matched = 17
    /\ detection.out.pattern_result.pattern_score = Rat(1, 1)

\* The entries of a pattern library that re.finditer can evaluate
Evaluable(patterns) ==
    LET Good(entry) == Compiles(entry.regex) IN SelectSeq(patterns, Good)

QuietAnalysis ==
    MkAnalysis(<<[path |-> HELPERS_TS, ai_confidence |-> Rat(35, 100),
                  lines_changed |-> 20]>>,
               Rat(35, 100), Rat(20, 1), 150, NoInt, <<>>)

SharedAnalyses == {TestAnalysis, QuietAnalysis}
SharedCodes == {OneWord, OnBreakpoint}

\* policy_engine = PolicyEngine(EXAMPLE_CONFIG) and a CombinedDetector()
\* that all requests use
StartService ==
    /\ engine.status = "none"
    /\ detector.status = "none"
    /\ config' = ExampleConfig
    /\ engine' = PolicyEngineInit(ExampleConfig)
    /\ detector' = [status |-> "ok", patterns |-> BuildPatterns,
                    weights |-> CombinerWeights]
    /\ UNCHANGED <<analysis, result, trigger, tmAnalysis, tmResult, policy,
                   epAnalysis, epResult, cmp, detection, score, calls>>

\* Some call that has begun has not returned yet
Running(cs) == \E j \in 1..Len(cs) : ~cs[j].done

\* engine.evaluate(analysis) is entered: result = EvaluationResult(...)
BeginEvaluate ==
    /\ engine.status = "ok"
    /\ Len(calls) < MaxCalls
    /\ \E a \in SharedAnalyses :
          calls' = Append(calls,
                     [kind |-> "evaluate", analysis |-> a, given |-> a,
                      pc |-> 1, done |-> FALSE, overlapped |-> Running(calls),
                      result |-> EmptyResult,
                      alone |-> Evaluate(engine.policies, a)])
    /\ UNCHANGED <<polVars, detVars>>

\* The mutant keeps one result for all evaluations, that of the first one.
LocalResultShared(cs, i) ==
    LET evaluations == {j \in 1..Len(cs) : cs[j].kind = "evaluate"}
    IN  cs[CHOOSE j \in evaluations : \A k \in evaluations : j <= k].result

\* The result of call i so far: a local variable of that call
LocalResult(cs, i) == cs[i].result

\* One iteration of the loop of evaluate() in call i, or its return
StepEvaluate ==
    /\ \E i \in 1..Len(calls) :
          /\ calls[i].kind = "evaluate"
          /\ ~calls[i].done
          /\ IF calls[i].pc > Len(engine.policies)
             THEN calls' = [calls EXCEPT ![i].done = TRUE]
             ELSE \E next \in {ApplyPolicy(LocalResult(calls, i),
                                           engine.policies[calls[i].pc],
                                           calls[i].analysis)} :
                     calls' = [calls EXCEPT
                                  ![i].result = next,
                                  ![i].pc = @ + 1,
                                  ![i].done = (next.status = "raised")]
    /\ UNCHANGED <<polVars, detVars>>

NoFeatures == [computed |-> FALSE]

\* detector.detect(code, language, telemetry_hash) is entered
BeginDetect ==
    /\ detector.status = "ok"
    /\ Len(calls) < MaxCalls
    /\ \E code \in SharedCodes :
          calls' = Append(calls,
                     [kind |-> "detect", code |-> code, language |-> "auto",
                      telemetry_hash |-> NoneV,
                      pc |-> 1, done |-> FALSE, overlapped |-> Running(calls),
                      features |-> NoFeatures,
                      pattern_result |-> PatternRaised,
                      result |-> NoDetectionResult,
                      alone |-> Detect(detector, code, "auto", NoneV)])
    /\ UNCHANGED <<polVars, detVars>>

\* The next stage of detect() in call i: the style analysis, the pattern
\* detection, then the combination and the return
StepDetect ==
    /\ \E i \in 1..Len(calls) :
          /\ calls[i].kind = "detect"
          /\ ~calls[i].done
          /\ calls' =
               IF calls[i].pc = 1
               THEN [calls EXCEPT
                        ![i].features = Analyze(calls[i].code,
                                                calls[i].language),
                        ![i].pc = 2]
               ELSE IF calls[i].pc = 2
               THEN CHOOSE out \in
                      { [calls EXCEPT ![i].pattern_result = r,
                                      ![i].pc = 3,
                                      ![i].done = r.raised] :
                          r \in {PatternDetect(detector.patterns,
                                               calls[i].code)} } : TRUE
               ELSE [calls EXCEPT
                        ![i].result =
                            DetectFrom(detector, calls[i].features,
                                       calls[i].pattern_result,
                                       calls[i].telemetry_hash).result,
                        ![i].done = TRUE]
    /\ UNCHANGED <<polVars, detVars>>

NextConcurrent ==
    \/ StartService
    \/ BeginEvaluate
    \/ StepEvaluate
    \/ BeginDetect
    \/ StepDetect

SpecConcurrent == Init /\ [][NextConcurrent]_vars

\* Calls i and j were given the same arguments
SameArguments(ci, cj) ==
    /\ ci.kind = cj.kind
    /\ ci.kind = "evaluate" => ci.given = cj.given
    /\ ci.kind = "detect" =>
          /\ ci.code = cj.code
          /\ ci.language = cj.language
          /\ ci.telemetry_hash = cj.telemetry_hash

\* C12: concurrent or repeated invocations do not interfere: the engine's
\* policy list, the detector's tables and the caller's analysis are never
\* modified, every call that has returned has the result it returns when it
\* runs alone on its arguments, whatever the interleaving, and calls with the
\* same arguments return the same result.
C12_NoInterference ==
    /\ engine.status = "ok" => engine = PolicyEngineInit(config)
    /\ detector.status = "ok" =>
          /\ detector.patterns = BuildPatterns
          /\ detector.weights = CombinerWeights
    /\ \A i \in 1..Len(calls) :
          /\ calls[i].kind = "evaluate" => calls[i].analysis = calls[i].given
          /\ calls[i].done /\ calls[i].kind = "evaluate" =>
                calls[i].result = calls[i].alone
          /\ calls[i].done /\ calls[i].kind = "detect" =>
                /\ calls[i].pattern_result.raised = calls[i].alone.raised
                /\ calls[i].result = calls[i].alone.result
    /\ \A i, j \in 1..Len(calls) :
          calls[i].done /\ calls[j].done /\ SameArguments(calls[i], calls[j])
              => calls[i].result = calls[j].result

\* Two evaluations on the shared engine have returned, the second one
\* entered while the first was running; the first is blocked with a
\* violation, the second is allowed.
C12_Witness ==
    /\ Len(calls) = 2
    /\ calls[1].kind = "evaluate" /\ calls[2].kind = "evaluate"
    /\ calls[1].done /\ calls[2].done
    /\ calls[2].overlapped
    /\ ~calls[1].result.allowed /\ calls[1].result.violations # <<>>
    /\ calls[2].result.allowed /\ calls[2].result.violations = <<>>

(***************************************************************************)
(* Review time conditions.                                                 *)
(***************************************************************************)
\* The comparison an operator of the grammar stands for, on seconds
OpHolds(operator, a, b) ==
    \/ operator = <<">">> /\ a > b
    \/ operator = <<">", "=">> /\ a >= b
    \/ operator = <<"<">> /\ a < b
    \/ operator = <<"<", "=">> /\ a <= b
    \/ operator \in {<<"=", "=">>, <<"=">>} /\ a = b

UnitSeconds(w) ==
    CASE w = <<"s", "e", "c", "o", "n", "d">> -> 1
      [] w = <<"m", "i", "n", "u", "t", "e">> -> 60
      [] w = <<"h", "o", "u", "r">> -> 3600

\* The readings of s as operator, number and unit: an operator, a run of
\* digits and a unit word, with optional blanks around the number.
TimeReadings(s) ==
    { [operator |-> SubSeq(s, 1, k),
       threshold |-> DigitsToInt(Strip(SubSeq(s, k + 1, u - 1)))
                        * UnitSeconds(w)] :
        <<k, u, w>> \in
            { q \in (1..Len(s)) \X (1..Len(s)) \X UnitWords :
                /\ q[1] < q[2]
                /\ SubSeq(s, 1, q[1]) \in ThresholdOps
                /\ IsDigits(Strip(SubSeq(s, q[1] + 1, q[2] - 1)))
                /\ StartsWith(s, q[2], q[3]) } }

\* A trigger whose only condition is its review_time expression, called
\* with an analysis that has a review time
ReviewTimeOnly ==
    /\ tmResult.called
    /\ trigger.ai_confidence = NoneV
    /\ trigger.ai_percentage = NoneV
    /\ trigger.lines_changed = NoneV
    /\ trigger.review_time.kind = "str"
    /\ tmAnalysis.review_time_seconds.some

C21_WitnessFails ==
    /\ ReviewTimeOnly
    /\ trigger.review_time \in {LT2MIN, LT2}
    /\ tmAnalysis.review_time_seconds.v = 120
    /\ ~tmResult.val

(***************************************************************************)
(* Path globs.                                                             *)
(***************************************************************************)
\* The stated glob semantics: '*' matches any run of characters within one
\* path segment (it does not match '/'), and '**' is two such runs.
RECURSIVE SegmentGlob(_, _)
SegmentGlob(path, pattern) ==
    IF pattern = <<>> THEN path = <<>>
    ELSE IF Head(pattern) = "*"
    THEN \/ SegmentGlob(path, Tail(pattern))
         \/ path # <<>> /\ Head(path) # "/" /\ SegmentGlob(Tail(path), pattern)
    ELSE /\ path # <<>>
         /\ Head(pattern) = Head(path)
         /\ SegmentGlob(Tail(path), Tail(pattern))

\* The paths of the files that match at least one glob under the stated
\* semantics, in analysis order
SegmentMatched ==
    LET idx == InOrder({k \in 1..Len(epAnalysis.files) :
                   \E j \in 1..Len(policy.trigger.paths) :
                       SegmentGlob(epAnalysis.files[k].path,
                                   policy.trigger.paths[j])})
    IN  [k \in 1..Len(idx) |-> epAnalysis.files[idx[k]].path]

\* C22: the files a policy's globs select are those matching under the
\* stated semantics ('*' stays within one path segment, '**' is the same as
\* '*'); 'src/auth/**' matches 'src/auth/login.ts' and
\* '**/middleware/auth*' matches 'app/middleware/auth.ts'.
C22_GlobWithinSegment ==
    (ThresholdsSatisfied /\ policy.trigger.paths # <<>>) =>
        /\ epResult.matched_files = SegmentMatched
        /\ policy.trigger.paths = <<SRC_AUTH, MW_AUTH>> =>
              \A k \in 1..Len(epAnalysis.files) :
                  epAnalysis.files[k].path \in {LOGIN_TS, MW_AUTH_TS} =>
                      \E j \in 1..Len(epResult.matched_files) :
                          epResult.matched_files[j] = epAnalysis.files[k].path

\* The two examples of the claim hold: both globs select their file.
C22_ExamplesHold ==
    (/\ ThresholdsSatisfied
     /\ policy.trigger.paths = <<SRC_AUTH, MW_AUTH>>
     /\ Len(epAnalysis.files) = 2
     /\ \A k \in 1..2 : epAnalysis.files[k].path \in {LOGIN_TS, MW_AUTH_TS})
    => Len(epResult.matched_files) = 2

(***************************************************************************)
(* The blend of the combiner.                                              *)
(***************************************************************************)
\* methods_used names the method
Lists(methods, name) == \E k \in 1..Len(methods) : methods[k] = name

Openers == {"{", "[", "("}
Closers == {"}", "]", ")"}

\* The depth counter after the first j characters of the text
CounterAfter(code, j) == NestingFrom(SubSeq(code, 1, j), 1, 0, 0).current_depth

\* C24: the depth counter goes up by one on '{', '[', '(' and down by one
\* on '}', ']', ')' but not below 0 (a closing bracket at depth 0 leaves it
\* unchanged); it is non-negative after every character, and the reported
\* max_nesting_depth is the largest value it had over all prefixes, 0 for a
\* text without opening brackets.
C24_DepthCounter ==
    (detection.called /\ ~detection.out.raised) =>
        \A counter \in {[j \in 0..Len(detection.code) |->
                            CounterAfter(detection.code, j)]} :
            LET code == detection.code
                reported == detection.out.features.max_nesting_depth
            IN  /\ counter[0] = 0
                /\ \A j \in 1..Len(code) :
                      /\ counter[j] >= 0
                      /\ code[j] \in Openers => counter[j] = counter[j - 1] + 1
                      /\ (code[j] \in Closers /\ counter[j - 1] > 0)
                            => counter[j] = counter[j - 1] - 1
                      /\ (code[j] \in Closers /\ counter[j - 1] = 0)
                            => counter[j] = 0
                      /\ code[j] \notin (Openers \cup Closers)
                            => counter[j] = counter[j - 1]
                /\ \A j \in 0..Len(code) : counter[j] <= reported
                /\ \E j \in 0..Len(code) : counter[j] = reported
                /\ (\A j \in 1..Len(code) : code[j] \notin Openers)
                      => reported = 0

\* A text that starts with closing brackets at depth 0, then nests three
\* deep and ends with brackets left open: the reported depth is 3 and the
\* counter ends at 2.
C24_Witness ==
    /\ detection.called
    /\ ~detection.out.raised
    /\ detection.code # <<>>
    /\ Head(detection.code) \in Closers
    /\ CounterAfter(detection.code, 1) = 0
    /\ detection.out.features.max_nesting_depth = 3
    /\ CounterAfter(detection.code, Len(detection.code)) = 2

(***************************************************************************)
(* The match records of the signature matcher.                             *)
(***************************************************************************)
\* The number of records the detection result lists as top_patterns
TopN == 5

\* The places [start, end) where the patterns are found, in library order
RECURSIVE AllFound(_, _, _)
AllFound(patterns, k, code) ==
    IF k > Len(patterns) THEN <<>>
    ELSE FindIter(patterns[k].regex, code) \o AllFound(patterns, k + 1, code)

\* len(code.split('\n'))
NumberOfLines(code) == Cardinality({k \in 1..Len(code) : code[k] = "\n"}) + 1

\* The line span "a-b" of a record read back as numbers
SpanOf(lines) ==
    LET dash == CHOOSE k \in 1..Len(lines) : lines[k] = "-"
    IN  [line_start |-> DigitsToInt(SubSeq(lines, 1, dash - 1)),
         line_end |-> DigitsToInt(SubSeq(lines, dash + 1, Len(lines)))]

\* Record k of the matcher's result describes the k-th place: its span is
\* 1-based, inclusive and within the text, and its snippet is the matched
\* text, cut to its first 100 characters plus "..." exactly when the matched
\* text is longer than 100 characters.
RecordDescribes(record, place, code) ==
    LET span == SpanOf(record.lines)
        text == SubSeq(code, place.start, place.end - 1)
    IN  /\ 1 <= span.line_start
        /\ span.line_start <= span.line_end
        /\ span.line_end <= NumberOfLines(code)
        /\ \A j \in place.start..(place.end - 1) :
              code[j] = "\n" => span.line_start < span.line_end
        /\ IF Len(text) > 100
           THEN record.snippet = SubSeq(text, 1, 100) \o <<".", ".", ".">>
           ELSE record.snippet = text

\* C25 (as stated): the signature matcher returns at most the top-N match
\* records, each with a 1-based inclusive line span within the text and a
\* snippet of the first 100 characters of the matched text, followed by
\* '...' exactly when the matched text is longer.
C25_AtMostTopN ==
    Detected =>
        \A found \in {AllFound(detector.patterns, 1, detection.code)} :
            LET matches == detection.out.pattern_result.matches
            IN  /\ Len(matches) <= TopN
                /\ \A k \in 1..Len(matches) :
                      RecordDescribes(matches[k], found[k], detection.code)

\* C25 (amended): the signature matcher returns one match record for every
\* match, in library order and without a cap; the detection result lists
\* the first five of them as top_patterns; each record has a 1-based
\* inclusive line span within the text and a snippet of the first 100
\* characters of the matched text, followed by '...' exactly when the
\* matched text is longer.
C25_EveryMatchReturned ==
    Detected =>
        \A found \in {AllFound(detector.patterns, 1, detection.code)} :
            LET matches == detection.out.pattern_result.matches
                top == detection.out.result.details.patterns.top_patterns
            IN  /\ Len(matches) = Len(found)
                /\ Len(top) = (IF Len(found) > TopN THEN TopN ELSE Len(found))
                /\ \A k \in 1..Len(top) : top[k] = matches[k]
                /\ \A k \in 1..Len(matches) :
                      RecordDescribes(matches[k], found[k], detection.code)

\* Seventeen matches are returned and the first five are listed.
C25_Witness ==
    /\ Detected
    /\ Len(detection.out.pattern_result.matches) = 17
    /\ Len(detection.out.result.details.patterns.top_patterns) = TopN

\* A match of 122 characters over lines 2 to 4: the snippet has 103
\* characters and ends in "...".
C25_WitnessLong ==
    /\ Detected
    /\ Len(detection.out.pattern_result.matches) = 1
    /\ detection.out.pattern_result.matches[1].lines = <<"2", "-", "4">>
    /\ Len(detection.out.pattern_result.matches[1].snippet) = 103
    /\ SubSeq(detection.out.pattern_result.matches[1].snippet, 101, 103)
          = <<".", ".", ".">>

\* A match of exactly 100 characters: the snippet is the matched text.
C25_WitnessHundred ==
    /\ Detected
    /\ Len(detection.out.pattern_result.matches) = 1
    /\ detection.out.pattern_result.matches[1].snippet = detection.code
    /\ Len(detection.code) = 100

(***************************************************************************)
(* Thresholds and path globs of one policy.                                *)
(***************************************************************************)
\* The commit-wide maximum probability, in percent, is above 70.
CommitWideAbove70 == RatLt(Rat(70, 1), Times100(epAnalysis.max_ai_confidence))

\* The policy is restricted to paths and carries the condition '> 70%' on
\* ai_confidence.
PathRestrictedOnConfidence ==
    /\ epResult.called
    /\ policy.trigger.paths # <<>>
    /\ policy.trigger.ai_confidence = GT70PCT

\* C26: a path-restricted policy with an ai_confidence condition triggers
\* whenever the commit-wide maximum satisfies the threshold and at least one
\* file matches a glob (and, when it names checks, one of them fails),
\* whatever the probabilities of the matched files are; its matched files
\* are then all glob-matched files.
C26_ThresholdsAreCommitWide ==
    PathRestrictedOnConfidence =>
        /\ ~epResult.raised
        /\ epResult.triggered <=>
              /\ CommitWideAbove70
              /\ GlobMatched # {}
              /\ \/ policy.trigger.checks = <<>>
                 \/ \E k \in 1..Len(policy.trigger.checks) :
                       CheckFails(policy.trigger.checks[k])
        /\ epResult.triggered =>
              /\ epResult.matched_files = ExpectedMatched
              /\ Evaluate(<<policy>>, epAnalysis).violations
                    = <<[policy_name |-> policy.name,
                         message |-> policy.message,
                         files |-> ExpectedMatched]>>

\* The commit's maximum 0.92 is the probability of one of its two files;
\* the globs select both, and the triggered policy lists both, the file
\* with probability 0.35 included.
C26_Witness ==
    /\ PathRestrictedOnConfidence
    /\ epResult.triggered
    /\ Len(epAnalysis.files) = 2
    /\ IsMaxOf(epAnalysis.max_ai_confidence, epAnalysis.files)
    /\ Len(epResult.matched_files) = 2
    /\ \E k \in GlobMatched :
          /\ ~RatLt(Rat(7, 10), epAnalysis.files[k].ai_confidence)
          /\ epResult.matched_files[k] = epAnalysis.files[k].path

\* No selected file has a probability above 0.7 (the commit-wide maximum is
\* reported higher than that of any file listed), and the policy triggers.
C26_WitnessNoneAbove ==
    /\ PathRestrictedOnConfidence
    /\ epResult.triggered
    /\ \A k \in GlobMatched :
          ~RatLt(Rat(7, 10), epAnalysis.files[k].ai_confidence)

(***************************************************************************)
(* Check names the engine does not know.                                   *)
(***************************************************************************)
RecognizedChecks == {"hardcoded_secrets", "sql_injection", "xss_patterns"}

\* The checks list with the name put in after its first i entries
WithCheck(checks, i, name) ==
    SubSeq(checks, 1, i) \o <<name>> \o SubSeq(checks, i + 1, Len(checks))

\* Whether the policy triggers on the analysis once the name has been added
\* to its checks list; tm and matched are what _trigger_matches and lines
\* 177-183 give for the policy, with or without the name.
TriggersWith(checks, tm, matched) ==
    PolicyResult([policy EXCEPT !.trigger.checks = checks],
                 epAnalysis, tm, matched).triggered

\* The name makes no difference, wherever it is put into the list.
AddingChangesNothing(name) ==
    \A tm \in {TriggerMatches(policy.trigger, epAnalysis)},
       matched \in {IF policy.trigger.paths # <<>>
                    THEN MatchPaths(policy.trigger.paths, epAnalysis.files)
                    ELSE AllPaths(epAnalysis.files)} :
        \A i \in 0..Len(policy.trigger.checks) :
            TriggersWith(WithCheck(policy.trigger.checks, i, name),
                         tm, matched) = epResult.triggered

OnlyUnrecognized(checks) ==
    /\ checks # <<>>
    /\ \A k \in 1..Len(checks) : checks[k] \notin RecognizedChecks

\* C28 (as stated): a policy whose checks list is non-empty and holds only
\* unrecognized names never triggers, and adding an unrecognized name to a
\* checks list never changes whether the policy triggers.
C28_UnrecognizedNeverMatters ==
    (epResult.called /\ ~epResult.raised) =>
        /\ OnlyUnrecognized(policy.trigger.checks) => ~epResult.triggered
        /\ AddingChangesNothing("dependency_audit")

\* C28 (amended): a policy whose checks list is non-empty and holds only
\* unrecognized names never triggers, and adding an unrecognized name to a
\* non-empty checks list never changes whether the policy triggers.
C28_UnrecognizedPasses ==
    (epResult.called /\ ~epResult.raised) =>
        /\ OnlyUnrecognized(policy.trigger.checks) => ~epResult.triggered
        /\ policy.trigger.checks # <<>> =>
              AddingChangesNothing("dependency_audit")

\* The thresholds and paths of the policy are satisfied, the analysis has
\* security issues, the only check named is unrecognized: no trigger.
C28_Witness ==
    /\ ThresholdsSatisfied
    /\ PathsSatisfied
    /\ policy.trigger.ai_confidence = GT70PCT
    /\ OnlyUnrecognized(policy.trigger.checks)
    /\ epAnalysis.security_issues # <<>>
    /\ ~epResult.triggered

\* A triggered policy with a failing recognised check still triggers with
\* an unrecognized name added in front of it.
C28_WitnessAdded ==
    /\ epResult.called
    /\ epResult.triggered
    /\ Len(policy.trigger.checks) = 1
    /\ EvaluatePolicy([policy EXCEPT !.trigger.checks =
                           WithCheck(@, 0, "dependency_audit")],
                      epAnalysis).triggered

(***************************************************************************)
(* The telemetry hash handed to detect().                                  *)
(***************************************************************************)
\* What detect() returns for the same code and language with hash h: the
\* analyzer and the matcher do not see the hash, so their results are those
\* of the call that was made.
WithHash(h) ==
    DetectFrom(detector, detection.out.features,
               detection.out.pattern_result, h)

\* Two results agree in everything but details.telemetry.
SameVerdict(r1, r2) ==
    /\ r1.ai_probability = r2.ai_probability
    /\ r1.confidence = r2.confidence
    /\ r1.stylometry_score = r2.stylometry_score
    /\ r1.pattern_score = r2.pattern_score
    /\ r1.methods_used = r2.methods_used
    /\ r1.details.stylometry = r2.details.stylometry
    /\ r1.details.patterns = r2.details.patterns

\* C27: runs of detect() that differ only in telemetry_hash (absent, empty
\* or any value) return the same ai_probability, tier, sub-scores and
\* methods_used, which never contains 'telemetry'; only details.telemetry
\* differs.
C27_HashHasNoInfluence ==
    detection.called =>
        \A h \in TelemetryPool :
            \A other \in {WithHash(h)} :
                /\ other.raised = detection.out.raised
                /\ ~detection.out.raised =>
                      /\ SameVerdict(other.result, detection.out.result)
                      /\ ~Lists(other.result.methods_used, "telemetry")
                      /\ other.result.details.telemetry.matched = FALSE

\* A call with the hash 'abc': the result records the hash as not matched,
\* and the call without a hash gives the same verdict without that record.
C27_Witness ==
    /\ Detected
    /\ detection.telemetry_hash = Str(<<"a", "b", "c">>)
    /\ detection.out.result.details.telemetry.present
    /\ ~detection.out.result.details.telemetry.matched
    /\ detection.out.result.methods_used = <<"stylometry", "pattern_matching">>
    /\ SameVerdict(WithHash(NoneV).result, detection.out.result)
    /\ WithHash(NoneV).result.details.telemetry
          # detection.out.result.details.telemetry

====
